---------------------------- MODULE Spec2Model ----------------------------
(***************************************************************************)
(* Machine pool creation of the rosa CLI (pkg/machinepool/machinepool.go): *)
(* the validation and request-assembly flow of CreateMachinePool (classic  *)
(* clusters) and CreateNodePools (hosted control plane clusters), and the  *)
(* pure validators they use.                                               *)
(*                                                                         *)
(* Text is modelled as a sequence of one-character strings, so that the    *)
(* identifier pattern, strings.Trim and strconv.ParseFloat are computed on *)
(* the characters of their input.                                          *)
(***************************************************************************)
EXTENDS Integers, Sequences, FiniteSets, TLC

VARIABLES
    fin,          \* argument of the pure function under check
    fout,         \* its result ("none" before the call)
    pc,           \* position of the running creation ("idle": none running)
    op,           \* the service method invoked
    cluster,      \* the cluster passed in (read-only)
    changed,      \* flags that cmd.Flags().Changed reports set (locals in use)
    args,         \* the user options the flow reads more than once or writes
    interactive,  \* interactive.Enabled(): the global interactive-mode toggle
    loc,          \* the local variables of the method
    asked,        \* the questions the last section prompted, in order
    calls,        \* the control-plane and cloud SDK calls made so far, in order
    err,          \* the error returned ("" while running, "nil" for success)
    request       \* the pool request passed to the create API

pureVars == <<fin, fout>>
flowVars == <<pc, op, cluster, changed, args, interactive, loc, asked, calls,
              err, request>>
vars == <<fin, fout, pc, op, cluster, changed, args, interactive, loc, asked,
          calls, err, request>>

----------------------------------------------------------------------------
(* Bounds of the model. *)

MaxNameLen == 3     \* longest enumerated pool name
MaxPriceLen == 4    \* longest enumerated spot price text
MaxReplicas == 3    \* largest replica count given by flag or prompt

----------------------------------------------------------------------------
(* Flags, questions, calls and error messages.                             *)

\* The command line flags the methods ask cmd.Flags().Changed about.
Flag ==
    [MultiAZ |-> "multi-availability-zone",
     AZ |-> "availability-zone",
     Subnet |-> "subnet",
     SecurityGroups |-> "additional-security-group-ids",
     Yes |-> "yes",
     Version |-> "version",
     MinReplicas |-> "min-replicas",
     MaxReplicas |-> "max-replicas",
     Autoscaling |-> "enable-autoscaling",
     Replicas |-> "replicas",
     Spot |-> "use-spot-instances",
     SpotMaxPrice |-> "spot-max-price",
     Labels |-> "labels",
     DiskSize |-> "disk-size"]

\* The questions of the prompts.
Ask ==
    [Name |-> "Machine pool name",
     MultiAZ |-> "Create multi-AZ machine pool",
     AZ |-> "AWS availability zone",
     SelectSubnet |-> "Select subnet",
     Subnet |-> "Subnet ID",
     Version |-> "OpenShift version",
     Autoscaling |-> "Enable autoscaling",
     MinReplicas |-> "Min replicas",
     MaxReplicas |-> "Max replicas",
     Replicas |-> "Replicas",
     SecurityGroups |-> "Additional security group IDs",
     InstanceType |-> "Instance type",
     RootDiskSize |-> "Root disk size (GiB or TiB)",
     TuningConfigs |-> "Tuning configs",
     ConfirmDelete |-> "delete machine pool",
     ConfirmReboot |-> "Creating the custom KubeletConfig will cause all non-Control Plane nodes to reboot",
     Spot |-> "Use spot instances",
     SpotMaxPrice |-> "Spot instance max price"]

\* The calls to the cluster manager (OCM) and to the cloud provider (AWS).
Call ==
    [GetVPCPrivateSubnets |-> "AWS.GetVPCPrivateSubnets",
     GetVersionList |-> "OCM.GetVersionList",
     ValidateVersion |-> "OCM.ValidateVersion",
     GetSecurityGroupIds |-> "AWS.GetSecurityGroupIds",
     GetSubnetAvailabilityZone |-> "AWS.GetSubnetAvailabilityZone",
     GetAvailableMachineTypesInRegion |->
        "OCM.GetAvailableMachineTypesInRegion",
     IsLocalAvailabilityZone |-> "AWS.IsLocalAvailabilityZone",
     GetDefaultClusterFlavors |-> "OCM.GetDefaultClusterFlavors",
     GetTuningConfigsName |-> "OCM.GetTuningConfigsName",
     GetMachinePools |-> "OCM.GetMachinePools",
     GetNodePool |-> "OCM.GetNodePool",
     DeleteMachinePool |-> "OCM.DeleteMachinePool",
     DeleteNodePool |-> "OCM.DeleteNodePool",
     GetClusterKubeletConfig |-> "OCM.GetClusterKubeletConfig",
     CreateKubeletConfig |-> "OCM.CreateKubeletConfig",
     CreateMachinePool |-> "OCM.CreateMachinePool",
     CreateNodePool |-> "OCM.CreateNodePool"]

\* The error messages, without the back quotes around flag names and
\* without the formatted arguments.  A message that wraps the error of a
\* prompt or collaborator ends with what failed.
Err ==
    [SpotNumeric |-> "Expected a numeric value for spot max price",
     SpotPositive |-> "Spot max price must be positive",
     MultiAZFlag |->
        "Setting the multi-availability-zone flag is only allowed for multi-AZ clusters",
     AZFlag |->
        "Setting the availability-zone flag is only allowed for multi-AZ clusters",
     SubnetFlag |->
        "Setting the subnet flag is only allowed for BYO VPC clusters",
     VersionCheck |-> "There was a problem checking version compatibility",
     SGByoVpc |->
        "Setting the additional-security-group-ids flag is only allowed for BYOVPC clusters",
     SGVersion |->
        "Parameter 'additional-security-group-ids' is not supported prior to version",
     SubnetAndAZ |->
        "Setting both subnet and availability-zone flag is not supported. Please select subnet or availability-zone to create a single availability zone machine pool",
     AZWithMultiAZ |->
        "Setting the availability-zone flag is only supported for creating a single AZ machine pool in a multi-AZ cluster",
     SubnetWithMultiAZ |->
        "Setting the subnet flag is only supported for creating a single AZ machine pool",
     NamePrompt |->
        "Expected a valid name for the machine pool: prompt failed",
     Name |-> "Expected a valid name for the machine pool",
     MultiAZPrompt |->
        "Expected a valid value for create multi-AZ machine pool",
     AZPrompt |-> "Expected a valid AWS availability zone: prompt failed",
     AZNotInCluster |->
        "Availability zone doesn't belong to the cluster's availability zones",
     SubnetPrompt |-> "Expected a valid value for subnet",
     Collaborator |-> "collaborator call failed",
     VersionPrompt |-> "Expected a valid OpenShift version: prompt failed",
     Version |-> "Expected a valid OpenShift version: not valid",
     NoPrivateSubnet |->
        "Failed to find a private subnet for availability zone",
     AutoscalingPrompt |->
        "Expected a valid value for enable-autoscaling: prompt failed",
     ReplicasWithAutoscaling |->
        "Replicas can't be set when autoscaling is enabled",
     MinPrompt |-> "Expected a valid number of min replicas: prompt failed",
     MaxPrompt |-> "Expected a valid number of max replicas: prompt failed",
     ReplicasPrompt |-> "Expected a valid number of replicas: prompt failed",
     MinMaxWithoutAutoscaling |->
        "Autoscaling must be enabled in order to set min and max replicas",
     Negative |-> "min-replicas must be a non-negative integer",
     Multiple3 |->
        "Multi AZ clusters require that the replicas be a multiple of 3",
     MaxLessThanMin |->
        "max-replicas must be greater or equal to min-replicas",
     SecurityGroupsPrompt |-> "Expected valid security group IDs",
     InstanceTypeRequired |-> "You must supply a valid instance type",
     InstanceTypePrompt |-> "Expected a valid instance type: prompt failed",
     InstanceType |-> "Expected a valid instance type: not available",
     MaxPriceWithoutSpot |->
        "Can't set max price when not using spot instances",
     SpotLocalZone |-> "Spot instances are not supported for local zones",
     SpotPrompt |->
        "Expected a valid value for use spot instances: prompt failed",
     SpotMaxPricePrompt |->
        "Expected a valid value for spot max price: prompt failed",
     CreateMachinePool |-> "Failed to add machine pool to cluster",
     DiskPrompt |-> "Expected a valid machine pool root disk size value",
     TuningConfigsPrompt |-> "Expected a valid value for tuning configs",
     NotReady |-> "Cluster is not yet ready",
     Labels |-> "the error ParseLabels returned",
     AWSClient |-> "Failed to create awsClient",
     KubeletHCP |->
        "Hosted Control Plane clusters do not support custom KubeletConfig configuration.",
     KubeletNotReady |-> "Cluster is not yet ready. Current state is",
     GetClusterKubeletConfig |-> "Failed getting KubeletConfig for cluster",
     KubeletConfigExists |-> "A custom KubeletConfig for cluster already exists",
     PodPidsLimit |-> "the error ValidateOrPromptForRequestedPidsLimit returned",
     CreateKubeletConfig |-> "Failed creating custom KubeletConfig for cluster",
     GetMachinePools |-> "Failed to get machine pools for cluster",
     MachinePoolNotFound |-> "Failed to get machine pool",
     DeleteMachinePool |-> "Failed to delete machine pool",
     GetNodePool |-> "Failed to get machine pools for hosted cluster",
     NodePoolNotFound |-> "Machine pool does not exist for hosted cluster",
     DeleteNodePool |-> "Failed to delete machine pool on hosted cluster",
     DiskParse |-> "Expected a valid machine pool root disk size value '%s'",
     DiskSize |-> "Invalid root disk size",
     CreateNodePool |-> "Failed to add machine pool to hosted cluster"]

----------------------------------------------------------------------------
(* Characters. *)

LowerChars ==
    {"a", "b", "c", "d", "e", "f", "g", "h", "i", "j", "k", "l", "m",
     "n", "o", "p", "q", "r", "s", "t", "u", "v", "w", "x", "y", "z"}

DigitChars == {"0", "1", "2", "3", "4", "5", "6", "7", "8", "9"}

\* The characters names are enumerated over: letters, digits, the hyphen,
\* and characters outside the pattern's classes (upper case, punctuation,
\* blank, tab, newline).
NameAlphabet == {"a", "z", "0", "9", "-", "#", "%", "$", "A", "_", " ", "\t", "\n"}

SeqsUpTo(S, n) == UNION {[1..k -> S] : k \in 0..n}

----------------------------------------------------------------------------
(* machinePoolKeyRE = ^[a-z]([-a-z0-9]*[a-z0-9])?$, run as the automaton   *)
(* the regexp package compiles it to.  States: "start" (nothing read),     *)
(* "alnum" (last character read is in [a-z0-9]: accepting), "hyphen"       *)
(* (inside the group, last character is a hyphen), "dead".  Go's $ without *)
(* the m flag matches at the end of the text only.                         *)

KeyREStep(q, c) ==
    CASE q = "start"  -> IF c \in LowerChars THEN "alnum" ELSE "dead"
      [] q = "alnum"  -> IF c \in LowerChars \cup DigitChars THEN "alnum"
                         ELSE IF c = "-" THEN "hyphen" ELSE "dead"
      [] q = "hyphen" -> IF c \in LowerChars \cup DigitChars THEN "alnum"
                         ELSE IF c = "-" THEN "hyphen" ELSE "dead"
      [] OTHER        -> "dead"

RECURSIVE KeyRERun(_, _)
KeyRERun(q, s) ==
    IF s = <<>> THEN q ELSE KeyRERun(KeyREStep(q, Head(s)), Tail(s))

\* A pattern without the closing [a-z0-9]: a trailing hyphen would match.
KeyREAcceptingMissingTail(q) == q \in {"alnum", "hyphen"}

KeyREAccepting(q) == q = "alnum"

MatchString(s) == KeyREAccepting(KeyRERun("start", s))

\* strings.Trim(s, " \t")
RECURSIVE TrimLeft(_)
TrimLeft(s) ==
    IF s # <<>> /\ Head(s) \in {" ", "\t"} THEN TrimLeft(Tail(s)) ELSE s

RECURSIVE TrimRight(_)
TrimRight(s) ==
    IF s # <<>> /\ s[Len(s)] \in {" ", "\t"}
    THEN TrimRight(SubSeq(s, 1, Len(s) - 1)) ELSE s

Trim(s) == TrimRight(TrimLeft(s))

----------------------------------------------------------------------------
(* The names of the package's regular expression test.                     *)

NameMachinepool1 == <<"m", "a", "c", "h", "i", "n", "e", "p", "o", "o", "l", "1">>
Name1Machinepool == <<"1", "m", "a", "c", "h", "i", "n", "e", "p", "o", "o", "l">>
NameHash1Machinepool == <<"#">> \o Name1Machinepool
NameM29Digits == <<"m">> \o [i \in 1..29 |-> "1"]
NameMHash123 == <<"m", "#", "1", "2", "3">>

TestNames ==
    {NameMachinepool1, Name1Machinepool, NameHash1Machinepool, NameM29Digits,
     NameMHash123}

NameTexts == SeqsUpTo(NameAlphabet, MaxNameLen) \cup TestNames

----------------------------------------------------------------------------
(* strconv.ParseFloat(s, 64) on the texts the model enumerates: an         *)
(* optional sign, decimal digits with at most one point and at least one   *)
(* digit; "nan" without a sign and "inf" with an optional sign are the     *)
(* special values (ParseFloat ignores their case).  The enumerated texts   *)
(* hold no exponent, hexadecimal prefix or underscore, so every other text *)
(* is a syntax error.  A float is [kind, neg, mant, frac]: kind "num" is   *)
(* (-1)^neg * mant / 10^frac.                                              *)

PriceAlphabet == {"-", "+", ".", "0", "1", "n", "a", "i", "f", "x"}

DigitValue(c) ==
    CASE c = "0" -> 0 [] c = "1" -> 1 [] c = "2" -> 2 [] c = "3" -> 3
      [] c = "4" -> 4 [] c = "5" -> 5 [] c = "6" -> 6 [] c = "7" -> 7
      [] c = "8" -> 8 [] c = "9" -> 9

RECURSIVE Mantissa(_, _)
Mantissa(s, acc) ==
    IF s = <<>> THEN acc
    ELSE IF Head(s) = "." THEN Mantissa(Tail(s), acc)
    ELSE Mantissa(Tail(s), 10 * acc + DigitValue(Head(s)))

PointAt(s) == IF \E i \in 1..Len(s) : s[i] = "."
              THEN CHOOSE i \in 1..Len(s) : s[i] = "." ELSE 0

SyntaxError == [kind |-> "error", neg |-> FALSE, mant |-> 0, frac |-> 0]
NaN == [kind |-> "nan", neg |-> FALSE, mant |-> 0, frac |-> 0]
Inf(neg) == [kind |-> "inf", neg |-> neg, mant |-> 0, frac |-> 0]

\* The unsigned part: digits and at most one point, at least one digit.
ParseDecimal(neg, s) ==
    IF /\ \A i \in 1..Len(s) : s[i] \in DigitChars \cup {"."}
       /\ Cardinality({i \in 1..Len(s) : s[i] = "."}) <= 1
       /\ \E i \in 1..Len(s) : s[i] \in DigitChars
    THEN [kind |-> "num", neg |-> neg, mant |-> Mantissa(s, 0),
          frac |-> IF PointAt(s) = 0 THEN 0 ELSE Len(s) - PointAt(s)]
    ELSE SyntaxError

ParseFloat(s) ==
    IF s = <<"n", "a", "n">> THEN NaN
    ELSE IF s = <<"i", "n", "f">> \/ s = <<"+", "i", "n", "f">> THEN Inf(FALSE)
    ELSE IF s = <<"-", "i", "n", "f">> THEN Inf(TRUE)
    ELSE IF s # <<>> /\ Head(s) \in {"+", "-"}
         THEN ParseDecimal(Head(s) = "-", Tail(s))
    ELSE ParseDecimal(FALSE, s)

\* The Go comparison price <= 0: false for NaN and for +Inf.
LessOrEqualZero(f) ==
    CASE f.kind = "num" -> f.neg \/ f.mant = 0
      [] f.kind = "inf" -> f.neg
      [] OTHER          -> FALSE

OnDemand == <<"o", "n", "-", "d", "e", "m", "a", "n", "d">>

Nil == "nil"

spotMaxPriceValidator(val) ==
    IF val = OnDemand THEN Nil
    ELSE IF ParseFloat(val).kind = "error" THEN Err.SpotNumeric
    ELSE IF LessOrEqualZero(ParseFloat(val)) THEN Err.SpotPositive
    ELSE Nil

\* The texts of the package's validator test.
PriceMinusOne == <<"-", "1">>
PriceNotANumber == <<"n", "o", "t", "-", "a", "-", "n", "u", "m", "b", "e", "r">>
PriceOneCent == <<"0", ".", "0", "1">>

PriceTexts ==
    SeqsUpTo(PriceAlphabet, MaxPriceLen)
        \cup {OnDemand, PriceMinusOne, PriceNotANumber, PriceOneCent}

----------------------------------------------------------------------------
(* The creation flow.  One invocation of CreateMachinePool or              *)
(* CreateNodePools runs from "flags" to "done"; each step below is one     *)
(* section of the method, in source order.  The inputs of an invocation    *)
(* (flags, option values, prompt answers, collaborator replies) are fixed  *)
(* but unknown: each is drawn at the step that first reads it.  A prompt   *)
(* either fails or returns any value of its type: the flow's own checks    *)
(* after a prompt are what the model relies on, not the prompt's.          *)
(*                                                                         *)
(* The method keeps the result of each cmd.Flags().Changed in a local      *)
(* (isSubnetSet, isReplicasSet, ...) that goes out of use after the        *)
(* section reading it last.  changed holds the flags of the locals in use  *)
(* and of the section that ran last; asked holds the questions the section *)
(* that ran last prompted.  calls accumulates over the invocation.         *)

ClassicOp == "CreateMachinePool"
HostedOp == "CreateNodePools"


NoErr == ""
Empty == <<>>      \* the empty text

\* The zones of the cluster's nodes, in cluster order.
AvailabilityZones(c) ==
    IF c.multiAZ THEN <<"us-east-1a", "us-east-1b">> ELSE <<"us-east-1a">>

Contains(list, x) == \E i \in 1..Len(list) : list[i] = x

NoRequest == [kind |-> "none"]

\* The values the flow's inputs are drawn from.
\* The private subnets of the cluster's VPC, by zone, as the cloud reports
\* them: one subnet in the first zone, several, or none there.
VPCs ==
    {[z \in {"us-east-1a"} |-> <<"subnet-1">>],
     [z \in {"us-east-1a"} |-> <<"subnet-1", "subnet-2">>],
     [z \in {"us-east-1b"} |-> <<"subnet-3">>]}

\* cmv1.ClusterStateReady, and the states the runner refuses.
ClusterStateReady == "ready"
ClusterStates == {ClusterStateReady, "installing", "error"}

\* CreateMachinePool's own code does not read the VPC: vpc is <<>> there.
\* Both methods are given Ready clusters: the runner refuses any other.
Clusters ==
    [hosted : {FALSE}, multiAZ : BOOLEAN, byoVpc : BOOLEAN,
     version : {"unparsable", "old", "new"}, vpc : {<<>>},
     state : {ClusterStateReady}]
        \cup [hosted : {TRUE}, multiAZ : {FALSE}, byoVpc : {TRUE},
              version : {"old", "new"}, vpc : VPCs,
              state : {ClusterStateReady}]

NameInputs == {Empty, <<"a">>, <<" ", "a", "\t">>, <<"1">>, <<"a", "-">>}
ZoneInputs == {"", "us-east-1b", "us-east-1-bos-1a"}
ZoneAnswers == {"us-east-1a", "us-east-1b", "us-east-1-bos-1a"}
SubnetInputs == {"", "subnet-1", "subnet-lz"}
SubnetAnswers == {"subnet-1", "subnet-lz"}
VersionInputs == {"", "old", "new"}
VersionAnswers == {"old", "new"}
ReplicaValues == -1..MaxReplicas
ScalingInputs ==
    [AutoscalingEnabled : BOOLEAN, MinReplicas : ReplicaValues,
     MaxReplicas : ReplicaValues, Replicas : ReplicaValues]
SecurityGroupInputs == {<< >>, << <<" ", "s", "g", " ">> >>}
SecurityGroupAnswers == {<< >>, << <<"s", "g">> >>}
InstanceTypeInputs == {"", "m5.xlarge", "t1.nano"}
\* The machine types the region offers for the pool's zones.
AvailableMachineTypes == {"m5.xlarge"}
PriceInputs == {OnDemand, <<"1">>, <<"0">>, <<"n", "a", "n">>, <<"x">>}
\* The zone of each subnet of the VPC, and the zones that are local zones.
SubnetAvailabilityZone(s) ==
    CASE s = "subnet-1"  -> "us-east-1a"
      [] s = "subnet-2"  -> "us-east-1a"
      [] s = "subnet-3"  -> "us-east-1b"
      [] s = "subnet-lz" -> "us-east-1-bos-1a"
IsLocalAvailabilityZone(z) == z = "us-east-1-bos-1a"

\* The zero values of the method's local variables.
InitLoc ==
    [name |-> Empty, subnet |-> "", availabilityZone |-> "",
     multiAZMachinePool |-> FALSE, autoscaling |-> FALSE,
     minReplicas |-> 0, maxReplicas |-> 0, replicas |-> 0, version |-> "",
     securityGroupIds |-> <<>>, instanceType |-> "",
     availabilityZonesFilter |-> <<>>, useSpotInstances |-> FALSE,
     maxPrice |-> <<>>, defaultRootDiskSize |-> 0, flavorsErr |-> FALSE,
     rootDiskSize |-> <<>>, rootVolume |-> <<>>,
     availableTuningConfigs |-> <<>>, tuningConfigs |-> <<>>,
     labels |-> "", awsClient |-> FALSE]

\* NewCreateMachinepoolUserOptions: the values of the options no flag set.
DefaultArgs ==
    [MultiAvailabilityZone |-> TRUE, AvailabilityZone |-> "", Subnet |-> "",
     SecurityGroupIds |-> << >>]

\* The outcome of a section: the error it returns (NoErr: it falls through
\* to the next section), the locals, and the prompts and calls it added.
Outcome(e, l, a, c) == [err |-> e, loc |-> l, asked |-> a, calls |-> c]

\* A section ends: the flow returns its error, or goes on to the next one.
Continue(next, o) ==
    /\ pc' = IF o.err = NoErr THEN next ELSE "done"
    /\ err' = o.err
    /\ loc' = o.loc
    /\ asked' = o.asked
    /\ calls' = calls \o o.calls

----------------------------------------------------------------------------
(* CreateMachinePool, flag validation.                                     *)

\* cobra binds each option to its flag: an option whose flag was not set
\* holds its default.
BoundToFlags(fl, a) ==
    /\ Flag.MultiAZ \notin fl => a.MultiAvailabilityZone = DefaultArgs.MultiAvailabilityZone
    /\ Flag.AZ \notin fl => a.AvailabilityZone = DefaultArgs.AvailabilityZone
    /\ Flag.Subnet \notin fl => a.Subnet = DefaultArgs.Subnet


\* The options with the placement values given on the command line.
PlacementArgs(a) ==
    {[a EXCEPT !.AvailabilityZone = z, !.Subnet = s]
     : z \in ZoneInputs, s \in SubnetInputs}

\* versions.IsGreaterThanOrEqual(cluster version, minimum for day-2
\* additional security groups)
IsVersionCompatibleComputeSgIds(c) == c.version = "new"

\* The flag checks with the subnet/zone conflict checked last.
ValidateMachinePoolFlagsSubnetAZLast(c, fl, a) ==
    IF Flag.MultiAZ \in fl /\ ~c.multiAZ THEN Err.MultiAZFlag
    ELSE IF Flag.AZ \in fl /\ ~c.multiAZ THEN Err.AZFlag
    ELSE IF ~c.byoVpc /\ Flag.Subnet \in fl THEN Err.SubnetFlag
    ELSE IF c.version = "unparsable" THEN Err.VersionCheck
    ELSE IF Flag.SecurityGroups \in fl /\ ~c.byoVpc THEN Err.SGByoVpc
    ELSE IF Flag.SecurityGroups \in fl /\ ~IsVersionCompatibleComputeSgIds(c)
         THEN Err.SGVersion
    ELSE IF Flag.AZ \in fl /\ Flag.MultiAZ \in fl /\ a.MultiAvailabilityZone
         THEN Err.AZWithMultiAZ
    ELSE IF Flag.Subnet \in fl /\ Flag.MultiAZ \in fl /\ a.MultiAvailabilityZone
         THEN Err.SubnetWithMultiAZ
    ELSE IF Flag.Subnet \in fl /\ Flag.AZ \in fl THEN Err.SubnetAndAZ
    ELSE NoErr

\* The flag checks without the BYO-VPC gate of the subnet flag.
ValidateMachinePoolFlagsSubnetUngated(c, fl, a) ==
    IF Flag.MultiAZ \in fl /\ ~c.multiAZ THEN Err.MultiAZFlag
    ELSE IF Flag.AZ \in fl /\ ~c.multiAZ THEN Err.AZFlag
    ELSE IF c.version = "unparsable" THEN Err.VersionCheck
    ELSE IF Flag.SecurityGroups \in fl /\ ~c.byoVpc THEN Err.SGByoVpc
    ELSE IF Flag.SecurityGroups \in fl /\ ~IsVersionCompatibleComputeSgIds(c)
         THEN Err.SGVersion
    ELSE IF Flag.Subnet \in fl /\ Flag.AZ \in fl THEN Err.SubnetAndAZ
    ELSE IF Flag.AZ \in fl /\ Flag.MultiAZ \in fl /\ a.MultiAvailabilityZone
         THEN Err.AZWithMultiAZ
    ELSE IF Flag.Subnet \in fl /\ Flag.MultiAZ \in fl /\ a.MultiAvailabilityZone
         THEN Err.SubnetWithMultiAZ
    ELSE NoErr

ValidateMachinePoolFlags(c, fl, a) ==
    IF Flag.MultiAZ \in fl /\ ~c.multiAZ THEN Err.MultiAZFlag
    ELSE IF Flag.AZ \in fl /\ ~c.multiAZ THEN Err.AZFlag
    ELSE IF ~c.byoVpc /\ Flag.Subnet \in fl THEN Err.SubnetFlag
    ELSE IF c.version = "unparsable" THEN Err.VersionCheck
    ELSE IF Flag.SecurityGroups \in fl /\ ~c.byoVpc THEN Err.SGByoVpc
    ELSE IF Flag.SecurityGroups \in fl /\ ~IsVersionCompatibleComputeSgIds(c)
         THEN Err.SGVersion
    ELSE IF Flag.Subnet \in fl /\ Flag.AZ \in fl THEN Err.SubnetAndAZ
    ELSE IF Flag.AZ \in fl /\ Flag.MultiAZ \in fl /\ a.MultiAvailabilityZone
         THEN Err.AZWithMultiAZ
    ELSE IF Flag.Subnet \in fl /\ Flag.MultiAZ \in fl /\ a.MultiAvailabilityZone
         THEN Err.SubnetWithMultiAZ
    ELSE NoErr

MPValidateFlags ==
    /\ pc = "flags"
    /\ op = ClassicOp
    /\ \E fl \in SUBSET {Flag.MultiAZ, Flag.AZ, Flag.Subnet, Flag.SecurityGroups},
          multi \in BOOLEAN :
        LET a == [args EXCEPT !.MultiAvailabilityZone = multi] IN
        /\ BoundToFlags(fl, a)
        /\ changed' = fl
        /\ args' = a
        /\ Continue("name", Outcome(ValidateMachinePoolFlags(cluster, fl, a),
                                    loc, <<>>, <<>>))
    /\ UNCHANGED <<fin, fout, op, cluster, interactive, request>>

----------------------------------------------------------------------------
(* CreateNodePools, flag validation.                                       *)

ValidateNodePoolFlags(fl) ==
    IF Flag.Subnet \in fl /\ Flag.AZ \in fl THEN Err.SubnetAndAZ ELSE NoErr

NPValidateFlags ==
    /\ pc = "flags"
    /\ op = HostedOp
    /\ \E fl \in SUBSET {Flag.AZ, Flag.Subnet} :
        /\ changed' = fl
        /\ args' = args
        /\ Continue("name", Outcome(ValidateNodePoolFlags(fl), loc, <<>>, <<>>))
    /\ UNCHANGED <<fin, fout, op, cluster, interactive, request>>

----------------------------------------------------------------------------
(* Machine pool name (both methods).                                       *)

\* The name section without the match after the second trim.
ResolveNameNoRevalidation(given, enabled, answer, promptFails) ==
    LET name0 == Trim(given)
        inter == enabled \/ name0 = Empty
        prompted == name0 = Empty \/ inter
        name1 == IF prompted THEN answer ELSE name0
    IN  [interactive |-> inter,
         asked |-> IF prompted THEN <<Ask.Name>> ELSE <<>>,
         name |-> IF prompted /\ promptFails THEN name0 ELSE Trim(name1),
         err |-> IF prompted /\ promptFails THEN Err.NamePrompt ELSE NoErr]

\* The name section leaving interactive mode on only when it promoted the
\* session.
ResolveNameModeReset(given, enabled, answer, promptFails) ==
    LET name0 == Trim(given)
        prompted == name0 = Empty \/ enabled
        name1 == IF prompted THEN answer ELSE name0
    IN  [interactive |-> name0 = Empty,
         asked |-> IF prompted THEN <<Ask.Name>> ELSE <<>>,
         name |-> IF prompted /\ promptFails THEN name0 ELSE Trim(name1),
         err |-> IF prompted /\ promptFails THEN Err.NamePrompt
                 ELSE IF ~MatchString(Trim(name1)) THEN Err.Name
                 ELSE NoErr]

\* The name section asking for a missing name without turning interactive
\* mode on.
ResolveNameNoPromotion(given, enabled, answer, promptFails) ==
    LET name0 == Trim(given)
        prompted == name0 = Empty \/ enabled
        name1 == IF prompted THEN answer ELSE name0
    IN  [interactive |-> enabled,
         asked |-> IF prompted THEN <<Ask.Name>> ELSE <<>>,
         name |-> IF prompted /\ promptFails THEN name0 ELSE Trim(name1),
         err |-> IF prompted /\ promptFails THEN Err.NamePrompt
                 ELSE IF ~MatchString(Trim(name1)) THEN Err.Name
                 ELSE NoErr]

\* The name after the prompt, if it is shown: [name, interactive, asked, err].
ResolveName(given, enabled, answer, promptFails) ==
    LET name0 == Trim(given)
        inter == enabled \/ name0 = Empty
        prompted == name0 = Empty \/ inter
        name1 == IF prompted THEN answer ELSE name0
    IN  [interactive |-> inter,
         asked |-> IF prompted THEN <<Ask.Name>> ELSE <<>>,
         name |-> IF prompted /\ promptFails THEN name0 ELSE Trim(name1),
         err |-> IF prompted /\ promptFails THEN Err.NamePrompt
                 ELSE IF ~MatchString(Trim(name1)) THEN Err.Name
                 ELSE NoErr]

PoolName ==
    /\ pc = "name"
    /\ \E given \in NameInputs, answer \in NameInputs, promptFails \in BOOLEAN :
        LET r == ResolveName(given, interactive, answer, promptFails) IN
        /\ interactive' = r.interactive
        /\ Continue(IF op = HostedOp THEN "version" ELSE "placement",
                    Outcome(r.err, [loc EXCEPT !.name = r.name], r.asked, <<>>))
    /\ UNCHANGED <<fin, fout, op, cluster, changed, args, request>>

----------------------------------------------------------------------------
(* Placement.                                                              *)

SubnetResult(s, e, a, c) == [subnet |-> s, err |-> e, asked |-> a, calls |-> c]

\* getSubnetFromUser: with the subnet flag not set in an interactive
\* session the user is asked whether to select a subnet, and if so picks
\* one of the VPC's private subnets; otherwise the subnet option is taken.
getSubnetFromUser(isSubnetSet, enabled, a) ==
    IF ~isSubnetSet /\ enabled
    THEN {SubnetResult("", Err.SubnetPrompt, <<Ask.SelectSubnet>>, <<>>),
          SubnetResult("", NoErr, <<Ask.SelectSubnet>>, <<>>),
          SubnetResult("", Err.Collaborator, <<Ask.SelectSubnet>>,
                       <<Call.GetVPCPrivateSubnets>>),
          SubnetResult("", Err.SubnetPrompt, <<Ask.SelectSubnet, Ask.Subnet>>,
                       <<Call.GetVPCPrivateSubnets>>)}
         \cup {SubnetResult(s, NoErr, <<Ask.SelectSubnet, Ask.Subnet>>,
                            <<Call.GetVPCPrivateSubnets>>) : s \in SubnetAnswers}
    ELSE {SubnetResult(a.Subnet, NoErr, <<>>, <<>>)}

\* The zone taken as given, not compared with the cluster's zones.
MPZoneUnchecked(c, fl, a, enabled, l, as, cs) ==
    LET default == AvailabilityZones(c)[1]
        taken(z, q) == Outcome(NoErr, [l EXCEPT !.availabilityZone = z], as \o q, cs)
    IN  IF Flag.AZ \notin fl /\ enabled
        THEN {Outcome(Err.AZPrompt, [l EXCEPT !.availabilityZone = default],
                      as \o <<Ask.AZ>>, cs)}
             \cup {taken(z, <<Ask.AZ>>) : z \in ZoneAnswers}
        ELSE IF Flag.AZ \in fl THEN {taken(a.AvailabilityZone, <<>>)}
        ELSE {taken(default, <<>>)}

\* Lines 211-233: the zone of a single-AZ pool without a subnet.
MPZone(c, fl, a, enabled, l, as, cs) ==
    LET default == AvailabilityZones(c)[1]
        checked(z, q) ==
            Outcome(IF Contains(AvailabilityZones(c), z) THEN NoErr
                    ELSE Err.AZNotInCluster,
                    [l EXCEPT !.availabilityZone = z], as \o q, cs)
    IN  IF Flag.AZ \notin fl /\ enabled
        THEN {Outcome(Err.AZPrompt, [l EXCEPT !.availabilityZone = default],
                      as \o <<Ask.AZ>>, cs)}
             \cup {checked(z, <<Ask.AZ>>) : z \in ZoneAnswers}
        ELSE IF Flag.AZ \in fl THEN {checked(a.AvailabilityZone, <<>>)}
        ELSE {checked(default, <<>>)}

\* The single-AZ section resolving a zone even when a subnet was resolved.
MPSingleAZZoneAlways(c, fl, a, enabled, l, as) ==
    LET subs == IF c.byoVpc /\ a.AvailabilityZone = ""
                THEN getSubnetFromUser(Flag.Subnet \in fl, enabled, a)
                ELSE {SubnetResult("", NoErr, <<>>, <<>>)}
    IN  UNION {IF r.err # NoErr THEN {Outcome(r.err, l, as \o r.asked, r.calls)}
               ELSE MPZone(c, fl, a, enabled, [l EXCEPT !.subnet = r.subnet],
                           as \o r.asked, r.calls)
               : r \in subs}

\* Lines 202-234: a single-AZ machine pool of a multi-AZ cluster.
MPSingleAZ(c, fl, a, enabled, l, as) ==
    LET subs == IF c.byoVpc /\ a.AvailabilityZone = ""
                THEN getSubnetFromUser(Flag.Subnet \in fl, enabled, a)
                ELSE {SubnetResult("", NoErr, <<>>, <<>>)}
    IN  UNION {IF r.err # NoErr THEN {Outcome(r.err, l, as \o r.asked, r.calls)}
               ELSE IF r.subnet # ""
               THEN {Outcome(NoErr, [l EXCEPT !.subnet = r.subnet],
                             as \o r.asked, r.calls)}
               ELSE MPZone(c, fl, a, enabled, l, as \o r.asked, r.calls)
               : r \in subs}

\* The placement with the zone and subnet flags not read as the choice of a
\* single-AZ pool.
MPPlacementFlagsNotImplying(c, fl, a0, enabled, l) ==
    IF ~c.multiAZ
    THEN IF c.byoVpc
         THEN {[args |-> a0,
                out |-> Outcome(r.err, [l EXCEPT !.subnet = r.subnet],
                                r.asked, r.calls)]
               : r \in getSubnetFromUser(Flag.Subnet \in fl, enabled, a0)}
         ELSE {[args |-> a0, out |-> Outcome(NoErr, l, <<>>, <<>>)]}
    ELSE
        LET single == FALSE
            isMultiAvailabilityZoneSet == Flag.MultiAZ \in fl \/ single
            a == IF single THEN [a0 EXCEPT !.MultiAvailabilityZone = FALSE]
                 ELSE a0
            ask == ~isMultiAvailabilityZoneSet /\ enabled /\ Flag.Yes \notin fl
            pool(m, as) ==
                IF m THEN {Outcome(NoErr, [l EXCEPT !.multiAZMachinePool = TRUE],
                                   as, <<>>)}
                ELSE MPSingleAZ(c, fl, a, enabled, l, as)
            outs == IF ask
                    THEN {Outcome(Err.MultiAZPrompt, l, <<Ask.MultiAZ>>, <<>>)}
                         \cup pool(TRUE, <<Ask.MultiAZ>>)
                         \cup pool(FALSE, <<Ask.MultiAZ>>)
                    ELSE pool(a.MultiAvailabilityZone, <<>>)
        IN  {[args |-> a, out |-> o] : o \in outs}

\* The placement with the multi-AZ option inverted, not set to false, by a
\* zone or subnet flag.
MPPlacementInvertingOption(c, fl, a0, enabled, l) ==
    IF ~c.multiAZ
    THEN IF c.byoVpc
         THEN {[args |-> a0,
                out |-> Outcome(r.err, [l EXCEPT !.subnet = r.subnet],
                                r.asked, r.calls)]
               : r \in getSubnetFromUser(Flag.Subnet \in fl, enabled, a0)}
         ELSE {[args |-> a0, out |-> Outcome(NoErr, l, <<>>, <<>>)]}
    ELSE
        LET single == Flag.AZ \in fl \/ Flag.Subnet \in fl
            isMultiAvailabilityZoneSet == Flag.MultiAZ \in fl \/ single
            a == IF single THEN [a0 EXCEPT !.MultiAvailabilityZone = ~a0.MultiAvailabilityZone]
                 ELSE a0
            ask == ~isMultiAvailabilityZoneSet /\ enabled /\ Flag.Yes \notin fl
            pool(m, as) ==
                IF m THEN {Outcome(NoErr, [l EXCEPT !.multiAZMachinePool = TRUE],
                                   as, <<>>)}
                ELSE MPSingleAZ(c, fl, a, enabled, l, as)
            outs == IF ask
                    THEN {Outcome(Err.MultiAZPrompt, l, <<Ask.MultiAZ>>, <<>>)}
                         \cup pool(TRUE, <<Ask.MultiAZ>>)
                         \cup pool(FALSE, <<Ask.MultiAZ>>)
                    ELSE pool(a.MultiAvailabilityZone, <<>>)
        IN  {[args |-> a, out |-> o] : o \in outs}

\* Lines 169-235.  The result pairs the outcome with the options, which the
\* method writes to when a zone or subnet flag implies a single-AZ pool.
MPPlacement(c, fl, a0, enabled, l) ==
    IF ~c.multiAZ
    THEN IF c.byoVpc
         THEN {[args |-> a0,
                out |-> Outcome(r.err, [l EXCEPT !.subnet = r.subnet],
                                r.asked, r.calls)]
               : r \in getSubnetFromUser(Flag.Subnet \in fl, enabled, a0)}
         ELSE {[args |-> a0, out |-> Outcome(NoErr, l, <<>>, <<>>)]}
    ELSE
        LET single == Flag.AZ \in fl \/ Flag.Subnet \in fl
            isMultiAvailabilityZoneSet == Flag.MultiAZ \in fl \/ single
            a == IF single THEN [a0 EXCEPT !.MultiAvailabilityZone = FALSE]
                 ELSE a0
            ask == ~isMultiAvailabilityZoneSet /\ enabled /\ Flag.Yes \notin fl
            pool(m, as) ==
                IF m THEN {Outcome(NoErr, [l EXCEPT !.multiAZMachinePool = TRUE],
                                   as, <<>>)}
                ELSE MPSingleAZ(c, fl, a, enabled, l, as)
            outs == IF ask
                    THEN {Outcome(Err.MultiAZPrompt, l, <<Ask.MultiAZ>>, <<>>)}
                         \cup pool(TRUE, <<Ask.MultiAZ>>)
                         \cup pool(FALSE, <<Ask.MultiAZ>>)
                    ELSE pool(a.MultiAvailabilityZone, <<>>)
        IN  {[args |-> a, out |-> o] : o \in outs}

\* confirm.Yes() is read only when the multi-AZ question could be asked.
YesFlagRead(c, fl, enabled) ==
    /\ c.multiAZ
    /\ fl \cap {Flag.MultiAZ, Flag.AZ, Flag.Subnet} = {}
    /\ enabled

MPPlace ==
    /\ pc = "placement"
    /\ op = ClassicOp
    /\ \E yes \in SUBSET {Flag.Yes}, a \in PlacementArgs(args) :
        /\ yes # {} => YesFlagRead(cluster, changed, interactive)
        /\ BoundToFlags(changed, a)
        /\ changed' = changed \cup yes
        /\ \E r \in MPPlacement(cluster, changed \cup yes, a, interactive, loc) :
            /\ args' = r.args
            /\ Continue("scaling", r.out)
    /\ UNCHANGED <<fin, fout, op, cluster, interactive, request>>

----------------------------------------------------------------------------
(* CreateNodePools, OpenShift version (lines 687-734).                     *)

NPVersionOutcomes(c, isVersionSet, given, enabled, l) ==
    IF ~(isVersionSet \/ enabled) THEN {Outcome(NoErr, l, <<>>, <<>>)}
    ELSE
        LET version0 == IF given = "" THEN c.version ELSE given
            validated(v, as) ==
                {Outcome(Err.Version, [l EXCEPT !.version = v], as,
                         <<Call.GetVersionList, Call.ValidateVersion>>),
                 Outcome(NoErr, [l EXCEPT !.version = v], as,
                         <<Call.GetVersionList, Call.ValidateVersion>>)}
        IN  {Outcome(Err.Collaborator, l, <<>>, <<Call.GetVersionList>>)}
            \cup (IF enabled
                  THEN {Outcome(Err.VersionPrompt, [l EXCEPT !.version = version0],
                                <<Ask.Version>>, <<Call.GetVersionList>>)}
                       \cup UNION {validated(v, <<Ask.Version>>) : v \in VersionAnswers}
                  ELSE validated(version0, <<>>))

NPVersion ==
    /\ pc = "version"
    /\ op = HostedOp
    /\ \E fl \in SUBSET {Flag.Version}, given \in VersionInputs :
        /\ Flag.Version \notin fl => given = ""
        /\ changed' = changed \cup fl
        /\ \E o \in NPVersionOutcomes(cluster, Flag.Version \in fl, given,
                                      interactive, loc) :
            Continue("placement", o)
    /\ UNCHANGED <<fin, fout, op, cluster, args, interactive, request>>

----------------------------------------------------------------------------
(* CreateNodePools, subnet (lines 736-748).                                *)

\* The function without interactive.Enable() before the second
\* getSubnetFromUser.
getSubnetFromAvailabilityZoneModeKept(c, isAvailabilityZoneSet, a, enabled) ==
    LET default == AvailabilityZones(c)[1]
        WithMode(r, z) ==
            [subnet |-> r.subnet, err |-> r.err, asked |-> r.asked,
             calls |-> r.calls, interactive |-> enabled, availabilityZone |-> z]
        bySubnets(z, as) ==
            IF z \in DOMAIN c.vpc
            THEN IF Len(c.vpc[z]) = 1
                 THEN {WithMode(SubnetResult(c.vpc[z][1], NoErr, as,
                                             <<Call.GetVPCPrivateSubnets>>), z)}
                 ELSE {WithMode(SubnetResult(r.subnet, r.err, as \o r.asked,
                                             <<Call.GetVPCPrivateSubnets>> \o r.calls),
                                z)
                       : r \in getSubnetFromUser(FALSE, enabled, a)}
            ELSE {WithMode(SubnetResult("", Err.NoPrivateSubnet, as,
                                        <<Call.GetVPCPrivateSubnets>>), z)}
    IN  {WithMode(SubnetResult("", Err.Collaborator, <<>>,
                               <<Call.GetVPCPrivateSubnets>>), "")}
        \cup (IF ~isAvailabilityZoneSet /\ enabled
              THEN {WithMode(SubnetResult("", Err.AZPrompt, <<Ask.AZ>>,
                                          <<Call.GetVPCPrivateSubnets>>), default)}
                   \cup UNION {bySubnets(z, <<Ask.AZ>>) : z \in ZoneAnswers}
              ELSE IF isAvailabilityZoneSet
              THEN bySubnets(a.AvailabilityZone, <<>>)
              ELSE bySubnets(default, <<>>))

\* getSubnetFromAvailabilityZone:
\* [subnet, err, asked, calls, interactive, availabilityZone].
getSubnetFromAvailabilityZone(c, isAvailabilityZoneSet, a, enabled) ==
    LET default == AvailabilityZones(c)[1]
        WithMode(r, e, z) ==
            [subnet |-> r.subnet, err |-> r.err, asked |-> r.asked,
             calls |-> r.calls, interactive |-> e, availabilityZone |-> z]
        bySubnets(z, as) ==
            IF z \in DOMAIN c.vpc
            THEN IF Len(c.vpc[z]) = 1
                 THEN {WithMode(SubnetResult(c.vpc[z][1], NoErr, as,
                                             <<Call.GetVPCPrivateSubnets>>),
                                enabled, z)}
                 ELSE {WithMode(SubnetResult(r.subnet, r.err, as \o r.asked,
                                             <<Call.GetVPCPrivateSubnets>> \o r.calls),
                                TRUE, z)
                       : r \in getSubnetFromUser(FALSE, TRUE, a)}
            ELSE {WithMode(SubnetResult("", Err.NoPrivateSubnet, as,
                                        <<Call.GetVPCPrivateSubnets>>),
                           enabled, z)}
    IN  {WithMode(SubnetResult("", Err.Collaborator, <<>>,
                               <<Call.GetVPCPrivateSubnets>>), enabled, "")}
        \cup (IF ~isAvailabilityZoneSet /\ enabled
              THEN {WithMode(SubnetResult("", Err.AZPrompt, <<Ask.AZ>>,
                                          <<Call.GetVPCPrivateSubnets>>),
                             enabled, default)}
                   \cup UNION {bySubnets(z, <<Ask.AZ>>) : z \in ZoneAnswers}
              ELSE IF isAvailabilityZoneSet
              THEN bySubnets(a.AvailabilityZone, <<>>)
              ELSE bySubnets(default, <<>>))

\* Lines 736-748.  availabilityZone is the local of
\* getSubnetFromAvailabilityZone, "" while that function has not run.
NPPlacement(c, fl, a, enabled, l) ==
    UNION {IF r.err # NoErr \/ r.subnet # ""
           THEN {[interactive |-> enabled,
                  out |-> Outcome(r.err, [l EXCEPT !.subnet = r.subnet],
                                  r.asked, r.calls)]}
           ELSE {[interactive |-> s.interactive,
                  out |-> Outcome(s.err,
                                  [l EXCEPT !.subnet = s.subnet,
                                            !.availabilityZone = s.availabilityZone],
                                  r.asked \o s.asked, r.calls \o s.calls)]
                 : s \in getSubnetFromAvailabilityZone(c, Flag.AZ \in fl, a, enabled)}
           : r \in getSubnetFromUser(Flag.Subnet \in fl, enabled, a)}

NPPlace ==
    /\ pc = "placement"
    /\ op = HostedOp
    /\ \E a \in PlacementArgs(args) :
        /\ BoundToFlags(changed, a)
        /\ args' = a
        /\ \E r \in NPPlacement(cluster, changed, a, interactive, loc) :
            /\ interactive' = r.interactive
            /\ Continue("scaling", r.out)
    /\ changed' = changed \ {Flag.Version}
    /\ UNCHANGED <<fin, fout, op, cluster, request>>

----------------------------------------------------------------------------
(* Replica validators.  Their argument is the int the flag or the prompt   *)
(* gave, so the Atoi of its %v rendering cannot fail.                      *)

\* The validators without the sign check and without the order check.
minReplicaValidatorNoSign(multiAZMachinePool, val) ==
    IF multiAZMachinePool /\ val % 3 # 0 THEN Err.Multiple3
    ELSE Nil

minReplicaValidator(multiAZMachinePool, val) ==
    IF val < 0 THEN Err.Negative
    ELSE IF multiAZMachinePool /\ val % 3 # 0 THEN Err.Multiple3
    ELSE Nil

maxReplicaValidatorNoOrder(minReplicas, multiAZMachinePool, val) ==
    IF multiAZMachinePool /\ val % 3 # 0 THEN Err.Multiple3
    ELSE Nil

maxReplicaValidator(minReplicas, multiAZMachinePool, val) ==
    IF minReplicas > val THEN Err.MaxLessThanMin
    ELSE IF multiAZMachinePool /\ val % 3 # 0 THEN Err.Multiple3
    ELSE Nil

\* machinepools.MinNodePoolReplicaValidator and MaxNodePoolReplicaValidator:
\* a hosted pool's counts are non-negative and max is at least min.
MinNodePoolReplicaValidator(autoscaling, val) ==
    IF val < 0 THEN Err.Negative ELSE Nil

MaxNodePoolReplicaValidator(minReplicas, val) ==
    IF minReplicas > val THEN Err.MaxLessThanMin ELSE Nil

\* The validators each method passes to the prompts and runs afterwards.
MinValidator(o, l, autoscaling, val) ==
    IF o = ClassicOp THEN minReplicaValidator(l.multiAZMachinePool, val)
    ELSE MinNodePoolReplicaValidator(autoscaling, val)

MaxValidator(o, l, minReplicas, val) ==
    IF o = ClassicOp THEN maxReplicaValidator(minReplicas, l.multiAZMachinePool, val)
    ELSE MaxNodePoolReplicaValidator(minReplicas, val)

----------------------------------------------------------------------------
(* Scaling (CreateMachinePool lines 237-325, CreateNodePools 750-839).     *)
(* minReplicas, maxReplicas and replicas are recorded in loc once the flow *)
(* has resolved them (from the flag or from the prompt).                   *)

ToErr(v) == IF v = Nil THEN NoErr ELSE v

\* Lines 284-301: max replicas, once min replicas is resolved.
ResolveMaxReplicas(o, fl, sc, enabled, l, as) ==
    LET checked(n, q) ==
            Outcome(ToErr(MaxValidator(o, l, l.minReplicas, n)),
                    [l EXCEPT !.maxReplicas = n], as \o q, <<>>)
    IN  IF enabled \/ Flag.MaxReplicas \notin fl
        THEN {Outcome(Err.MaxPrompt, l, as \o <<Ask.MaxReplicas>>, <<>>)}
             \cup {checked(n, <<Ask.MaxReplicas>>) : n \in ReplicaValues}
        ELSE {checked(sc.MaxReplicas, <<>>)}

\* Lines 260-301: the autoscaling branch.
ResolveAutoscaled(o, fl, sc, enabled, l, as) ==
    LET checked(n, q) ==
            LET l1 == [l EXCEPT !.minReplicas = n]
                e == ToErr(MinValidator(o, l, TRUE, n))
            IN  IF e # NoErr THEN {Outcome(e, l1, as \o q, <<>>)}
                ELSE ResolveMaxReplicas(o, fl, sc, enabled, l1, as \o q)
    IN  IF Flag.Replicas \in fl
        THEN {Outcome(Err.ReplicasWithAutoscaling, l, as, <<>>)}
        ELSE IF enabled \/ Flag.MinReplicas \notin fl
        THEN {Outcome(Err.MinPrompt, l, as \o <<Ask.MinReplicas>>, <<>>)}
             \cup UNION {checked(n, <<Ask.MinReplicas>>) : n \in ReplicaValues}
        ELSE checked(sc.MinReplicas, <<>>)

\* The fixed replicas branch asking only in an interactive session.
ResolveFixedAskingOnlyInteractive(o, fl, sc, enabled, l, as) ==
    LET checked(n, q) ==
            Outcome(ToErr(MinValidator(o, l, FALSE, n)),
                    [l EXCEPT !.replicas = n], as \o q, <<>>)
    IN  IF Flag.MinReplicas \in fl \/ Flag.MaxReplicas \in fl
        THEN {Outcome(Err.MinMaxWithoutAutoscaling, l, as, <<>>)}
        ELSE IF enabled
        THEN {Outcome(Err.ReplicasPrompt, l, as \o <<Ask.Replicas>>, <<>>)}
             \cup {checked(n, <<Ask.Replicas>>) : n \in ReplicaValues}
        ELSE {checked(sc.Replicas, <<>>)}

\* Lines 302-325: the fixed replicas branch.
ResolveFixed(o, fl, sc, enabled, l, as) ==
    LET checked(n, q) ==
            Outcome(ToErr(MinValidator(o, l, FALSE, n)),
                    [l EXCEPT !.replicas = n], as \o q, <<>>)
    IN  IF Flag.MinReplicas \in fl \/ Flag.MaxReplicas \in fl
        THEN {Outcome(Err.MinMaxWithoutAutoscaling, l, as, <<>>)}
        ELSE IF enabled \/ Flag.Replicas \notin fl
        THEN {Outcome(Err.ReplicasPrompt, l, as \o <<Ask.Replicas>>, <<>>)}
             \cup {checked(n, <<Ask.Replicas>>) : n \in ReplicaValues}
        ELSE {checked(sc.Replicas, <<>>)}

\* The scaling section without the two flag exclusivity checks.
ResolveScalingIgnoringFlags(o, fl, sc, enabled, l) ==
    IF sc.AutoscalingEnabled
    THEN ResolveAutoscaled(o, fl \ {Flag.Replicas}, sc, enabled,
                           [l EXCEPT !.autoscaling = TRUE], <<>>)
    ELSE ResolveFixed(o, fl \ {Flag.MinReplicas, Flag.MaxReplicas}, sc,
                      enabled, l, <<>>)

\* The scaling section asking about autoscaling whatever the replicas flag.
ResolveScalingAskingDespiteReplicas(o, fl, sc, enabled, l) ==
    LET branch(auto, as) ==
            IF auto
            THEN ResolveAutoscaled(o, fl, sc, enabled,
                                   [l EXCEPT !.autoscaling = TRUE], as)
            ELSE ResolveFixed(o, fl, sc, enabled, l, as)
    IN  IF /\ ~sc.AutoscalingEnabled
           /\ Flag.Autoscaling \notin fl
           /\ enabled
        THEN {Outcome(Err.AutoscalingPrompt, l, <<Ask.Autoscaling>>, <<>>)}
             \cup branch(TRUE, <<Ask.Autoscaling>>)
             \cup branch(FALSE, <<Ask.Autoscaling>>)
        ELSE branch(sc.AutoscalingEnabled, <<>>)

\* Lines 237-325 (CreateNodePools: lines 750-839).
ResolveScaling(o, fl, sc, enabled, l) ==
    LET branch(auto, as) ==
            IF auto
            THEN ResolveAutoscaled(o, fl, sc, enabled,
                                   [l EXCEPT !.autoscaling = TRUE], as)
            ELSE ResolveFixed(o, fl, sc, enabled, l, as)
    IN  IF /\ Flag.Replicas \notin fl
           /\ ~sc.AutoscalingEnabled
           /\ Flag.Autoscaling \notin fl
           /\ enabled
        THEN {Outcome(Err.AutoscalingPrompt, l, <<Ask.Autoscaling>>, <<>>)}
             \cup branch(TRUE, <<Ask.Autoscaling>>)
             \cup branch(FALSE, <<Ask.Autoscaling>>)
        ELSE branch(sc.AutoscalingEnabled, <<>>)

ScalingBoundToFlags(fl, sc) ==
    /\ Flag.Autoscaling \notin fl => ~sc.AutoscalingEnabled
    /\ Flag.MinReplicas \notin fl => sc.MinReplicas = 0
    /\ Flag.MaxReplicas \notin fl => sc.MaxReplicas = 0
    /\ Flag.Replicas \notin fl => sc.Replicas = 0

Scale ==
    /\ pc = "scaling"
    /\ \E fl \in SUBSET {Flag.Autoscaling, Flag.MinReplicas, Flag.MaxReplicas,
                         Flag.Replicas},
          sc \in ScalingInputs :
        /\ ScalingBoundToFlags(fl, sc)
        /\ changed' = (changed \cap {Flag.SecurityGroups}) \cup fl
        /\ \E o \in ResolveScaling(op, fl, sc, interactive, loc) :
            Continue("securitygroups", o)
    /\ UNCHANGED <<fin, fout, op, cluster, args, interactive, request>>

----------------------------------------------------------------------------
(* Additional security groups (CreateMachinePool lines 327-337,            *)
(* CreateNodePools lines 847-862).                                         *)

\* strings.TrimSpace on the characters the model uses.
RECURSIVE TrimSpaceLeft(_)
TrimSpaceLeft(s) ==
    IF s # <<>> /\ Head(s) \in {" ", "\t", "\n"} THEN TrimSpaceLeft(Tail(s)) ELSE s

RECURSIVE TrimSpaceRight(_)
TrimSpaceRight(s) ==
    IF s # <<>> /\ s[Len(s)] \in {" ", "\t", "\n"}
    THEN TrimSpaceRight(SubSeq(s, 1, Len(s) - 1)) ELSE s

TrimSpace(s) == TrimSpaceRight(TrimSpaceLeft(s))

TrimAll(ids) == [i \in 1..Len(ids) |-> TrimSpace(ids[i])]

\* features.IsFeatureSupported(AdditionalDay2SecurityGroupsHcpFeature, version)
IsVersionCompatibleSecurityGroupIds(version) == version = "new"

\* Whether the security groups are offered by prompt.
SecurityGroupsOffered(o, c, fl, enabled, l) ==
    IF o = ClassicOp
    THEN enabled /\ IsVersionCompatibleComputeSgIds(c) /\ c.byoVpc
         /\ Flag.SecurityGroups \notin fl
    ELSE enabled /\ Flag.SecurityGroups \notin fl
         /\ IsVersionCompatibleSecurityGroupIds(l.version)

\* getSecurityGroupsOption: the security groups of the VPC are listed and
\* the user selects among them.
getSecurityGroupsOption ==
    {[ids |-> <<>>, err |-> Err.Collaborator, asked |-> <<>>,
      calls |-> <<Call.GetSecurityGroupIds>>],
     [ids |-> <<>>, err |-> Err.SecurityGroupsPrompt,
      asked |-> <<Ask.SecurityGroups>>, calls |-> <<Call.GetSecurityGroupIds>>]}
    \cup {[ids |-> ids, err |-> NoErr, asked |-> <<Ask.SecurityGroups>>,
           calls |-> <<Call.GetSecurityGroupIds>>] : ids \in SecurityGroupAnswers}

\* The result pairs the outcome with the options: the IDs given by flag are
\* trimmed in place.
ResolveSecurityGroups(o, c, fl, a, enabled, l) ==
    IF SecurityGroupsOffered(o, c, fl, enabled, l)
    THEN {[args |-> a,
           out |-> Outcome(r.err, [l EXCEPT !.securityGroupIds = TrimAll(r.ids)],
                           r.asked, r.calls)]
          : r \in getSecurityGroupsOption}
    ELSE {[args |-> [a EXCEPT !.SecurityGroupIds = TrimAll(a.SecurityGroupIds)],
           out |-> Outcome(NoErr,
                           [l EXCEPT !.securityGroupIds = TrimAll(a.SecurityGroupIds)],
                           <<>>, <<>>)]}

SecurityGroups ==
    /\ pc = "securitygroups"
    /\ \E fl \in SUBSET {Flag.SecurityGroups}, ids \in SecurityGroupInputs :
        /\ op = ClassicOp => fl = changed \cap {Flag.SecurityGroups}
        /\ fl = {} => ids = DefaultArgs.SecurityGroupIds
        /\ changed' = fl
        /\ \E r \in ResolveSecurityGroups(
                        op, cluster, fl, [args EXCEPT !.SecurityGroupIds = ids],
                        interactive, loc) :
            /\ args' = r.args
            /\ Continue("instancetype", r.out)
    /\ UNCHANGED <<fin, fout, op, cluster, interactive, request>>

----------------------------------------------------------------------------
(* Instance type (CreateMachinePool lines 339-394, CreateNodePools lines   *)
(* 883-942).                                                               *)

\* The function with the subnet looked at before the zone.
getMachinePoolAvailabilityZonesSubnetFirst(c, multiAZMachinePool, availabilityZoneUserInput, subnetUserInput) ==
    IF subnetUserInput # ""
    THEN {[zones |-> <<>>, err |-> Err.Collaborator,
           calls |-> <<Call.GetSubnetAvailabilityZone>>],
          [zones |-> <<SubnetAvailabilityZone(subnetUserInput)>>, err |-> NoErr,
           calls |-> <<Call.GetSubnetAvailabilityZone>>]}
    ELSE IF c.multiAZ /\ ~multiAZMachinePool /\ availabilityZoneUserInput # ""
    THEN {[zones |-> <<availabilityZoneUserInput>>, err |-> NoErr, calls |-> <<>>]}
    ELSE {[zones |-> AvailabilityZones(c), err |-> NoErr, calls |-> <<>>]}

\* getMachinePoolAvailabilityZones: [zones, err, calls].
getMachinePoolAvailabilityZones(c, multiAZMachinePool, availabilityZoneUserInput, subnetUserInput) ==
    IF c.multiAZ /\ ~multiAZMachinePool /\ availabilityZoneUserInput # ""
    THEN {[zones |-> <<availabilityZoneUserInput>>, err |-> NoErr, calls |-> <<>>]}
    ELSE IF subnetUserInput # ""
    THEN {[zones |-> <<>>, err |-> Err.Collaborator,
           calls |-> <<Call.GetSubnetAvailabilityZone>>],
          [zones |-> <<SubnetAvailabilityZone(subnetUserInput)>>, err |-> NoErr,
           calls |-> <<Call.GetSubnetAvailabilityZone>>]}
    ELSE {[zones |-> AvailabilityZones(c), err |-> NoErr, calls |-> <<>>]}

\* Lines 901-911: the zones a node pool's instance types are filtered by.
NodePoolAvailabilityZones(c, subnet) ==
    IF subnet # ""
    THEN {[zones |-> AvailabilityZones(c), err |-> Err.Collaborator,
           calls |-> <<Call.GetSubnetAvailabilityZone>>],
          [zones |-> <<SubnetAvailabilityZone(subnet)>>, err |-> NoErr,
           calls |-> <<Call.GetSubnetAvailabilityZone>>]}
    ELSE {[zones |-> AvailabilityZones(c), err |-> NoErr, calls |-> <<>>]}

\* instanceTypeList.ValidateMachineType
ValidateMachineType(instanceType) ==
    IF instanceType \in AvailableMachineTypes THEN NoErr ELSE Err.InstanceType

ResolveInstanceType(o, c, given, enabled, l) ==
    IF given = "" /\ ~enabled
    THEN {Outcome(Err.InstanceTypeRequired, l, <<>>, <<>>)}
    ELSE
        LET filters == IF o = ClassicOp
                       THEN getMachinePoolAvailabilityZones(
                                c, l.multiAZMachinePool, l.availabilityZone, l.subnet)
                       ELSE NodePoolAvailabilityZones(c, l.subnet)
            typed(l1, cs) ==
                LET listed == cs \o <<Call.GetAvailableMachineTypesInRegion>>
                    checked(it, as) ==
                        Outcome(ValidateMachineType(it),
                                [l1 EXCEPT !.instanceType = it], as, listed)
                IN  {Outcome(Err.Collaborator, l1, <<>>, listed)}
                    \cup (IF enabled
                          THEN {Outcome(Err.InstanceTypePrompt, l1,
                                        <<Ask.InstanceType>>, listed)}
                               \cup {checked(it, <<Ask.InstanceType>>)
                                     : it \in InstanceTypeInputs \ {""}}
                          ELSE {checked(given, <<>>)})
        IN  UNION {IF f.err # NoErr THEN {Outcome(f.err, l, <<>>, f.calls)}
                   ELSE typed([l EXCEPT !.availabilityZonesFilter = f.zones],
                              f.calls)
                   : f \in filters}

InstanceType ==
    /\ pc = "instancetype"
    /\ \E given \in InstanceTypeInputs :
        \E o \in ResolveInstanceType(op, cluster, given, interactive, loc) :
            Continue(IF op = ClassicOp THEN "spot" ELSE "tuning", o)
    /\ changed' = {}
    /\ UNCHANGED <<fin, fout, op, cluster, args, interactive, request>>

----------------------------------------------------------------------------
(* Tuning configs (CreateNodePools lines 959-993).  A name is a sequence   *)
(* of characters, the option a comma-separated text.                       *)

\* strings.Split(s, sep) for a one-character separator.
RECURSIVE Split(_, _)
Split(s, sep) ==
    IF \A i \in 1..Len(s) : s[i] # sep THEN <<s>>
    ELSE LET i == CHOOSE k \in 1..Len(s) :
                      s[k] = sep /\ \A j \in 1..(k - 1) : s[j] # sep
         IN  <<SubSeq(s, 1, i - 1)>> \o Split(SubSeq(s, i + 1, Len(s)), sep)

\* The --tuning-configs texts: not given, an available name, and an
\* available name with one the cluster does not have.
TuningConfigInputs == {Empty, <<"a">>, <<"a", ",", "x">>}
\* The names GetTuningConfigsName reports: none, or one.
AvailableTuningConfigs == {<<>>, << <<"a">> >>}

\* interactive.GetMultipleOptions: the user selects among the options.
GetMultipleOptions(options) == {<<>>, options}

\* Lines 959-993.  found is whether GetTuningConfigsName succeeded.
ResolveTuningConfigs(given, enabled, l, available, found) ==
    LET cs == <<Call.GetTuningConfigsName>>
        l0 == [l EXCEPT !.availableTuningConfigs = available]
        input == IF given # Empty /\ Len(available) > 0
                 THEN Split(given, ",") ELSE <<>>
    IN  IF ~found THEN {Outcome(Err.Collaborator, l, <<>>, cs)}
        ELSE IF enabled /\ Len(available) > 0
        THEN {Outcome(Err.TuningConfigsPrompt, l0, <<Ask.TuningConfigs>>, cs)}
             \cup {Outcome(NoErr, [l0 EXCEPT !.tuningConfigs = a],
                           <<Ask.TuningConfigs>>, cs)
                   : a \in GetMultipleOptions(available)}
        ELSE {Outcome(NoErr, [l0 EXCEPT !.tuningConfigs = input], <<>>, cs)}

Tuning ==
    /\ pc = "tuning"
    /\ op = HostedOp
    /\ \E given \in TuningConfigInputs, available \in AvailableTuningConfigs,
          found \in BOOLEAN :
        \E o \in ResolveTuningConfigs(given, interactive, loc, available, found) :
            Continue("create", o)
    /\ UNCHANGED <<fin, fout, op, cluster, changed, args, interactive, request>>

----------------------------------------------------------------------------
(* Spot instances (CreateMachinePool lines 402-460).                       *)

\* Lines 451-460: the price is validated whether or not spot instances are
\* used; a price other than "on-demand" becomes the request's max price.
ValidatedPrice(l, price, as, cs) ==
    IF spotMaxPriceValidator(price) # Nil
    THEN Outcome(spotMaxPriceValidator(price), l, as, cs)
    ELSE Outcome(NoErr,
                 [l EXCEPT !.maxPrice = IF price = OnDemand THEN <<>>
                                        ELSE <<ParseFloat(price)>>],
                 as, cs)

\* Lines 436-449: the price, prompted when spot instances are used.
ResolveSpotMaxPrice(fl, given, enabled, l, as, cs) ==
    IF l.useSpotInstances /\ Flag.SpotMaxPrice \notin fl /\ enabled
    THEN {Outcome(Err.SpotMaxPricePrompt, l, as \o <<Ask.SpotMaxPrice>>, cs)}
         \cup {ValidatedPrice(l, p, as \o <<Ask.SpotMaxPrice>>, cs)
               : p \in PriceInputs}
    ELSE {ValidatedPrice(l, given, as, cs)}

\* The spot section without its local-zone test.
ResolveUseSpotAnyZone(fl, sp, enabled, l, isLocalZone, cs) ==
    IF Flag.Spot \notin fl /\ Flag.SpotMaxPrice \notin fl /\ enabled
    THEN {Outcome(Err.SpotPrompt, l, <<Ask.Spot>>, cs)}
         \cup UNION {ResolveSpotMaxPrice(
                         fl, sp.SpotMaxPrice, enabled,
                         [l EXCEPT !.useSpotInstances = u], <<Ask.Spot>>, cs)
                     : u \in BOOLEAN}
    ELSE ResolveSpotMaxPrice(fl, sp.SpotMaxPrice, enabled,
                             [l EXCEPT !.useSpotInstances = sp.UseSpotInstances],
                             <<>>, cs)

\* Lines 420-434: spot instances are refused in a local zone, and asked
\* for when no spot flag was set.
ResolveUseSpot(fl, sp, enabled, l, isLocalZone, cs) ==
    IF isLocalZone /\ sp.UseSpotInstances
    THEN {Outcome(Err.SpotLocalZone, l, <<>>, cs)}
    ELSE IF Flag.Spot \notin fl /\ Flag.SpotMaxPrice \notin fl /\ ~isLocalZone
            /\ enabled
    THEN {Outcome(Err.SpotPrompt, l, <<Ask.Spot>>, cs)}
         \cup UNION {ResolveSpotMaxPrice(
                         fl, sp.SpotMaxPrice, enabled,
                         [l EXCEPT !.useSpotInstances = u], <<Ask.Spot>>, cs)
                     : u \in BOOLEAN}
    ELSE ResolveSpotMaxPrice(fl, sp.SpotMaxPrice, enabled,
                             [l EXCEPT !.useSpotInstances = sp.UseSpotInstances],
                             <<>>, cs)

\* The spot section with the flag check made after the zone lookup.
ResolveSpotLookupFirst(fl, sp, enabled, l) ==
    LET cs == IF l.subnet # "" THEN <<Call.IsLocalAvailabilityZone>> ELSE <<>>
    IN  IF Flag.SpotMaxPrice \in fl /\ Flag.Spot \in fl /\ ~sp.UseSpotInstances
        THEN {Outcome(Err.MaxPriceWithoutSpot, l, <<>>, cs)}
        ELSE IF l.subnet # ""
        THEN {Outcome(Err.Collaborator, l, <<>>, cs)}
             \cup ResolveUseSpot(fl, sp, enabled, l,
                                 IsLocalAvailabilityZone(l.availabilityZonesFilter[1]),
                                 cs)
        ELSE ResolveUseSpot(fl, sp, enabled, l, FALSE, <<>>)

\* Lines 402-434.
ResolveSpot(fl, sp, enabled, l) ==
    IF Flag.SpotMaxPrice \in fl /\ Flag.Spot \in fl /\ ~sp.UseSpotInstances
    THEN {Outcome(Err.MaxPriceWithoutSpot, l, <<>>, <<>>)}
    ELSE IF l.subnet # ""
    THEN {Outcome(Err.Collaborator, l, <<>>, <<Call.IsLocalAvailabilityZone>>)}
         \cup ResolveUseSpot(fl, sp, enabled, l,
                             IsLocalAvailabilityZone(l.availabilityZonesFilter[1]),
                             <<Call.IsLocalAvailabilityZone>>)
    ELSE ResolveUseSpot(fl, sp, enabled, l, FALSE, <<>>)

SpotInputs == [UseSpotInstances : BOOLEAN, SpotMaxPrice : PriceInputs]

SpotBoundToFlags(fl, sp) ==
    /\ Flag.Spot \notin fl => ~sp.UseSpotInstances
    /\ Flag.SpotMaxPrice \notin fl => sp.SpotMaxPrice = OnDemand

Spot ==
    /\ pc = "spot"
    /\ op = ClassicOp
    /\ \E fl \in SUBSET {Flag.Spot, Flag.SpotMaxPrice}, sp \in SpotInputs :
        /\ SpotBoundToFlags(fl, sp)
        /\ changed' = fl
        /\ \E o \in ResolveSpot(fl, sp, interactive, loc) :
            Continue("disk", o)
    /\ UNCHANGED <<fin, fout, op, cluster, args, interactive, request>>

----------------------------------------------------------------------------
(* Root disk size (CreateMachinePool lines 505-552).                       *)

\* The --disk-size texts: not given, the default size, another valid size,
\* a text that is no size, and a size below the smallest allowed volume.
DiskSizeInputs == {"", "300GiB", "1TiB", "large", "1GiB"}
DiskSizeAnswers == DiskSizeInputs \ {""}

\* ocm.ParseDiskSizeToGigibyte: <<size in GiB>>, or <<>> for an error.
ParseDiskSizeToGigibyte(str) ==
    CASE str = "300GiB" -> <<300>>
      [] str = "1TiB" -> <<1024>>
      [] str = "1GiB" -> <<1>>
      [] OTHER -> <<>>

\* diskValidator.ValidateMachinePoolRootDiskSize: a volume has at least
\* 128 GiB and at most 16 TiB.
ValidateMachinePoolRootDiskSize(size) ==
    IF size >= 128 /\ size <= 16384 THEN Nil ELSE Err.DiskSize

\* Lines 536-551: the size is parsed and validated (rootDiskSize), and set
\* on the request (rootVolume) when it differs from the default.
RootVolume(l, str, as, cs) ==
    LET parsed == ParseDiskSizeToGigibyte(str)
    IN  IF parsed = <<>> THEN Outcome(Err.DiskParse, l, as, cs)
        ELSE IF ValidateMachinePoolRootDiskSize(parsed[1]) # Nil
        THEN Outcome(ValidateMachinePoolRootDiskSize(parsed[1]), l, as, cs)
        ELSE Outcome(NoErr,
                     [l EXCEPT !.rootDiskSize = parsed,
                               !.rootVolume =
                                   IF parsed[1] # l.defaultRootDiskSize THEN parsed
                                   ELSE <<>>],
                     as, cs)

\* The default root disk size GetDefaultClusterFlavors returns: the
\* platform's, or the zero value with an error.
GetDefaultClusterFlavors(found) == IF found THEN 300 ELSE 0

\* The section with a root volume set for every size, the default too.
ResolveRootDiskSizeAlwaysSet(given, enabled, l, found) ==
    LET cs == <<Call.GetDefaultClusterFlavors>>
        l0 == [l EXCEPT !.defaultRootDiskSize = GetDefaultClusterFlavors(found),
                        !.flavorsErr = ~found]
        set(o) == [o EXCEPT !.loc.rootVolume = o.loc.rootDiskSize]
    IN  IF given # "" \/ enabled
        THEN IF enabled
             THEN {Outcome(Err.DiskPrompt, l0, <<Ask.RootDiskSize>>, cs)}
                  \cup {set(RootVolume(l0, a, <<Ask.RootDiskSize>>, cs))
                        : a \in DiskSizeAnswers}
             ELSE {set(RootVolume(l0, given, <<>>, cs))}
        ELSE {Outcome(NoErr, l0, <<>>, cs)}

\* Lines 505-552.  found is whether GetDefaultClusterFlavors succeeded; its
\* error is the discarded sixth result, kept here as flavorsErr, and the
\* default size of a failed lookup is the zero value.  The prompt's default
\* is the option, or the default size printed in GiB.
ResolveRootDiskSize(given, enabled, l, found) ==
    LET cs == <<Call.GetDefaultClusterFlavors>>
        l0 == [l EXCEPT !.defaultRootDiskSize = GetDefaultClusterFlavors(found),
                        !.flavorsErr = ~found]
    IN  IF given # "" \/ enabled
        THEN IF enabled
             THEN {Outcome(Err.DiskPrompt, l0, <<Ask.RootDiskSize>>, cs)}
                  \cup {RootVolume(l0, a, <<Ask.RootDiskSize>>, cs)
                        : a \in DiskSizeAnswers}
             ELSE {RootVolume(l0, given, <<>>, cs)}
        ELSE {Outcome(NoErr, l0, <<>>, cs)}

Disk ==
    /\ pc = "disk"
    /\ \E given \in DiskSizeInputs, found \in BOOLEAN :
        /\ changed' = changed \cup (IF given # "" THEN {Flag.DiskSize} ELSE {})
        /\ \E o \in ResolveRootDiskSize(given, interactive, loc, found) :
            Continue("create", o)
    /\ UNCHANGED <<fin, fout, op, cluster, args, interactive, request>>

----------------------------------------------------------------------------
(* Request assembly and the create call.                                   *)

\* An optional field of a request is <<>> (not set) or <<value>>.

\* A builder that sets the autoscaling block and the replicas together.
MachinePoolBothScalings(c, l) ==
    [kind |-> "MachinePool",
     id |-> l.name,
     autoscaling |-> <<[minReplicas |-> l.minReplicas,
                        maxReplicas |-> l.maxReplicas]>>,
     replicas |-> <<l.replicas>>,
     instanceType |-> l.instanceType,
     spotMarketOptions |-> IF l.useSpotInstances
                           THEN <<[maxPrice |-> l.maxPrice]>> ELSE <<>>,
     additionalSecurityGroupIds |-> l.securityGroupIds,
     availabilityZones |->
        IF c.multiAZ /\ ~l.multiAZMachinePool /\ l.availabilityZone # ""
        THEN <<l.availabilityZone>> ELSE <<>>,
     subnets |-> IF l.subnet # "" THEN <<l.subnet>> ELSE <<>>,
     rootVolume |-> l.rootVolume]

\* Lines 464-503 and 549-551: the machine pool of CreateMachinePool.
MachinePool(c, l) ==
    [kind |-> "MachinePool",
     id |-> l.name,
     autoscaling |-> IF l.autoscaling
                     THEN <<[minReplicas |-> l.minReplicas,
                             maxReplicas |-> l.maxReplicas]>>
                     ELSE <<>>,
     replicas |-> IF l.autoscaling THEN <<>> ELSE <<l.replicas>>,
     instanceType |-> l.instanceType,
     spotMarketOptions |-> IF l.useSpotInstances
                           THEN <<[maxPrice |-> l.maxPrice]>> ELSE <<>>,
     additionalSecurityGroupIds |-> l.securityGroupIds,
     availabilityZones |->
        IF c.multiAZ /\ ~l.multiAZMachinePool /\ l.availabilityZone # ""
        THEN <<l.availabilityZone>> ELSE <<>>,
     subnets |-> IF l.subnet # "" THEN <<l.subnet>> ELSE <<>>,
     rootVolume |-> l.rootVolume]

\* Lines 866-881: the node pool of CreateNodePools.
NodePool(c, l) ==
    [kind |-> "NodePool",
     id |-> l.name,
     autoscaling |-> IF l.autoscaling
                     THEN <<[minReplicas |-> l.minReplicas,
                             maxReplicas |-> l.maxReplicas]>>
                     ELSE <<>>,
     replicas |-> IF l.autoscaling THEN <<>> ELSE <<l.replicas>>,
     instanceType |-> l.instanceType,
     spotMarketOptions |-> <<>>,
     additionalSecurityGroupIds |-> l.securityGroupIds,
     availabilityZones |-> <<>>,
     subnets |-> IF l.subnet # "" THEN <<l.subnet>> ELSE <<>>,
     tuningConfigs |-> l.tuningConfigs]


\* Lines 554-575 and 1071-1092: the request is built, then passed to the
\* create API, whose error is returned.
Create ==
    /\ pc = "create"
    /\ request' = IF op = ClassicOp THEN MachinePool(cluster, loc)
                  ELSE NodePool(cluster, loc)
    /\ calls' = calls \o <<IF op = ClassicOp THEN Call.CreateMachinePool
                           ELSE Call.CreateNodePool>>
    /\ pc' = "done"
    /\ err' \in {Nil, IF op = ClassicOp THEN Err.CreateMachinePool
                      ELSE Err.CreateNodePool}
    /\ asked' = <<>>
    /\ UNCHANGED <<fin, fout, op, cluster, changed, args, interactive, loc>>

----------------------------------------------------------------------------
(* The runner (CreateMachinepoolRunner) dispatches a cluster with hosted   *)
(* control plane to CreateNodePools and any other to CreateMachinePool.    *)

Idle ==
    /\ pc = "idle"
    /\ op = "none"
    /\ cluster = [hosted |-> FALSE, multiAZ |-> FALSE, byoVpc |-> FALSE,
                  version |-> "new", vpc |-> <<>>, state |-> ClusterStateReady]
    /\ changed = {}
    /\ args = DefaultArgs
    /\ loc = InitLoc
    /\ asked = <<>>
    /\ calls = <<>>
    /\ err = NoErr
    /\ request = NoRequest

\* The --labels texts: empty, a pair, and a key without a value.
LabelInputs == {"", "a=b", "a"}

\* mpHelpers.ParseLabels: the error of a text that is not key=value pairs.
ParseLabels(labels) == IF labels \in {"", "a=b"} THEN NoErr ELSE Err.Labels

\* The runner answering before it looks at the cluster state.
RunUncheckedState(c, fl, labels, built) ==
    LET parsed == IF Flag.Labels \in fl THEN ParseLabels(labels) ELSE NoErr
        read == [InitLoc EXCEPT !.labels = labels]
    IN  IF parsed # NoErr THEN [err |-> parsed, op |-> "none", loc |-> read]
        ELSE IF ~built
        THEN [err |-> Err.AWSClient, op |-> "none", loc |-> read]
        ELSE [err |-> NoErr,
              op |-> IF c.hosted THEN HostedOp ELSE ClassicOp,
              loc |-> [read EXCEPT !.awsClient = TRUE]]

\* CreateMachinepoolRunner, lines 234-272, up to the dispatch: the error it
\* returns, the method it hands the cluster to and its locals.  built is
\* whether the AWS client could be built.
Run(c, fl, labels, built) ==
    LET parsed == IF Flag.Labels \in fl THEN ParseLabels(labels) ELSE NoErr
        read == [InitLoc EXCEPT !.labels = labels]
    IN  IF c.state # ClusterStateReady
        THEN [err |-> Err.NotReady, op |-> "none", loc |-> InitLoc]
        ELSE IF parsed # NoErr THEN [err |-> parsed, op |-> "none", loc |-> read]
        ELSE IF ~built
        THEN [err |-> Err.AWSClient, op |-> "none", loc |-> read]
        ELSE [err |-> NoErr,
              op |-> IF c.hosted THEN HostedOp ELSE ClassicOp,
              loc |-> [read EXCEPT !.awsClient = TRUE]]

Invoke ==
    /\ pc = "idle"
    /\ \E c \in Clusters, st \in ClusterStates, fl \in SUBSET {Flag.Labels},
          labels \in LabelInputs, built \in BOOLEAN :
        LET fetched == [c EXCEPT !.state = st]
            r == Run(fetched, fl, labels, built)
        IN  /\ Flag.Labels \notin fl => labels = ""
            /\ cluster' = fetched
            /\ changed' = fl
            /\ op' = r.op
            /\ loc' = r.loc
            /\ err' = r.err
            /\ pc' = IF r.err = NoErr THEN "flags" ELSE "done"
    /\ UNCHANGED <<fin, fout, args, interactive, asked, calls, request>>

Init ==
    /\ Idle
    /\ interactive \in BOOLEAN
    /\ fin = Empty
    /\ fout = "none"

Next ==
    \/ Invoke
    \/ MPValidateFlags
    \/ NPValidateFlags
    \/ PoolName
    \/ NPVersion
    \/ MPPlace
    \/ NPPlace
    \/ Scale
    \/ SecurityGroups
    \/ InstanceType
    \/ Spot
    \/ Disk
    \/ Tuning
    \/ Create

Spec == Init /\ [][Next]_vars

----------------------------------------------------------------------------
(* Properties of the creation flow.                                        *)

Submitted == request # NoRequest
Rejected == pc = "done" /\ err \notin {NoErr, Nil} /\ ~Submitted
CreateCalled ==
    Contains(calls, Call.CreateMachinePool) \/ Contains(calls, Call.CreateNodePool)

\* C1: with the subnet and availability-zone flags both set, creation is
\* always rejected and nothing is submitted.  CreateNodePools gives the
\* fixed message for every cluster; CreateMachinePool gives it exactly when
\* no earlier flag check fails, that is on a multi-AZ BYO-VPC cluster whose
\* version can be compared and, if the security group flag is set, allows
\* additional security groups.
C1_SubnetAndZoneFlagsRejected ==
    {Flag.Subnet, Flag.AZ} \subseteq changed =>
        /\ Rejected
        /\ ~CreateCalled
        /\ op = HostedOp => err = Err.SubnetAndAZ
        /\ op = ClassicOp =>
             ((err = Err.SubnetAndAZ) <=>
                 /\ cluster.multiAZ
                 /\ cluster.byoVpc
                 /\ cluster.version # "unparsable"
                 /\ Flag.SecurityGroups \in changed => cluster.version = "new")

\* CreateMachinePool has returned the fixed message although the
\* multi-availability-zone flag was set too.
C1_FixedMessageReturned ==
    /\ op = ClassicOp
    /\ {Flag.Subnet, Flag.AZ, Flag.MultiAZ} \subseteq changed
    /\ err = Err.SubnetAndAZ

\* C1 as stated: with both flags set creation fails with the fixed message
\* for every cluster and every other flag.
C1_AlwaysFixedMessage ==
    {Flag.Subnet, Flag.AZ} \subseteq changed => pc = "done" /\ err = Err.SubnetAndAZ

\* C2: CreateMachinePool rejects a multi-availability-zone or
\* availability-zone flag set on a cluster that is not multi-AZ and a subnet
\* flag set on a cluster that is not BYO-VPC, with the "only allowed for"
\* message of the first such flag (in the order multi-availability-zone,
\* availability-zone, subnet), and creates no machine pool.
C2_TopologyGatedFlagsRejected ==
    op = ClassicOp =>
        LET multi == Flag.MultiAZ \in changed /\ ~cluster.multiAZ
            zone == Flag.AZ \in changed /\ ~cluster.multiAZ
            subnet == Flag.Subnet \in changed /\ ~cluster.byoVpc
        IN  /\ multi \/ zone \/ subnet => Rejected /\ ~CreateCalled
            /\ multi => err = Err.MultiAZFlag
            /\ zone /\ ~multi => err = Err.AZFlag
            /\ subnet /\ ~multi /\ ~zone => err = Err.SubnetFlag

\* The subnet flag has been rejected on a multi-AZ cluster without BYO VPC.
C2_SubnetFlagRejected ==
    /\ op = ClassicOp
    /\ cluster.multiAZ
    /\ ~cluster.byoVpc
    /\ Flag.Subnet \in changed
    /\ err = Err.SubnetFlag

\* The replica counts a request carries.
RequestCounts ==
    IF request.autoscaling # <<>>
    THEN {request.autoscaling[1].minReplicas, request.autoscaling[1].maxReplicas}
    ELSE {request.replicas[i] : i \in 1..Len(request.replicas)}

\* C3: every request CreateMachinePool submits carries non-negative replica
\* counts, and those of a multi-AZ pool (multi-AZ cluster, no single zone
\* and no subnet in the request) are multiples of 3, whether the counts
\* came from flags or from prompts.
C3_SubmittedReplicasValid ==
    Submitted /\ op = ClassicOp =>
        \A n \in RequestCounts :
            /\ n >= 0
            /\ (/\ cluster.multiAZ
                /\ request.availabilityZones = <<>>
                /\ request.subnets = <<>>) => n % 3 = 0

\* A single-zone pool of a multi-AZ cluster has been submitted with a
\* prompted replica count that is not a multiple of 3.
C3_SingleZoneCountSubmitted ==
    /\ Submitted
    /\ op = ClassicOp
    /\ cluster.multiAZ
    /\ request.availabilityZones # <<>>
    /\ request.replicas = <<2>>

\* C4: an autoscaled input with minReplicas > maxReplicas is rejected with
\* an error before the create call and is never submitted, so every
\* submitted autoscaled request has minReplicas <= maxReplicas.  (Read-only
\* calls may precede the rejection.)
C4_MinAboveMaxNeverSubmitted ==
    /\ loc.autoscaling /\ loc.minReplicas > loc.maxReplicas =>
            Rejected /\ ~CreateCalled
    /\ err = Err.MaxLessThanMin =>
            Rejected /\ ~CreateCalled /\ loc.minReplicas > loc.maxReplicas
    /\ Submitted /\ request.autoscaling # <<>> =>
            request.autoscaling[1].minReplicas <= request.autoscaling[1].maxReplicas

\* CreateNodePools has rejected max replicas below min replicas.
C4_MinAboveMaxRejected ==
    /\ op = HostedOp
    /\ err = Err.MaxLessThanMin
    /\ loc.minReplicas > loc.maxReplicas

\* C4 as stated: the rejection comes before any API call of the invocation.
C4_RejectedBeforeAnyCall ==
    loc.autoscaling /\ loc.minReplicas > loc.maxReplicas =>
        Rejected /\ calls = <<>>

\* C5: every submitted request sets exactly one scaling variant: an
\* autoscaling block with min and max replicas, or a fixed replica count.
C5_ExactlyOneScalingVariant ==
    Submitted =>
        /\ Len(request.autoscaling) + Len(request.replicas) = 1
        /\ request.autoscaling # <<>> <=> loc.autoscaling
        /\ loc.autoscaling =>
              request.autoscaling[1] =
                  [minReplicas |-> loc.minReplicas, maxReplicas |-> loc.maxReplicas]
        /\ ~loc.autoscaling => request.replicas = <<loc.replicas>>

\* A node pool has been submitted with an autoscaling block.
C5_AutoscaledNodePoolSubmitted ==
    /\ Submitted
    /\ op = HostedOp
    /\ request.autoscaling # <<>>

\* C6: with autoscaling active (by flag or by prompt answer) and the
\* replicas flag set, creation fails with "Replicas can't be set when
\* autoscaling is enabled"; with autoscaling resolved inactive and the
\* min-replicas or max-replicas flag set, it fails with "Autoscaling must be
\* enabled in order to set min and max replicas"; whatever the values.
C6_ScalingFlagsExclusive ==
    /\ loc.autoscaling /\ Flag.Replicas \in changed =>
            Rejected /\ err = Err.ReplicasWithAutoscaling
    /\ (/\ ~loc.autoscaling
        /\ err # Err.AutoscalingPrompt
        /\ changed \cap {Flag.MinReplicas, Flag.MaxReplicas} # {}) =>
            Rejected /\ err = Err.MinMaxWithoutAutoscaling

\* Autoscaling was declined at the prompt with the min-replicas flag set.
C6_MinFlagWithoutAutoscaling ==
    /\ asked = <<Ask.Autoscaling>>
    /\ Flag.MinReplicas \in changed
    /\ err = Err.MinMaxWithoutAutoscaling

\* C7: every request CreateMachinePool submits carries at most one
\* placement, an availability zone or a subnet, and a multi-AZ pool carries
\* neither.
C7_AtMostOnePlacement ==
    Submitted /\ op = ClassicOp =>
        /\ request.availabilityZones = <<>> \/ request.subnets = <<>>
        /\ Len(request.availabilityZones) <= 1
        /\ Len(request.subnets) <= 1
        /\ loc.multiAZMachinePool =>
              request.availabilityZones = <<>> /\ request.subnets = <<>>

\* A pool placed by a subnet selected at the prompt has been submitted on a
\* multi-AZ cluster.
C7_SubnetPoolSubmitted ==
    /\ Submitted
    /\ op = ClassicOp
    /\ cluster.multiAZ
    /\ request.subnets # <<>>
    /\ request.availabilityZones = <<>>

\* The errors of the flag checks that precede the name.
FlagErrors ==
    {Err.MultiAZFlag, Err.AZFlag, Err.SubnetFlag, Err.VersionCheck, Err.SGByoVpc,
     Err.SGVersion, Err.SubnetAndAZ, Err.AZWithMultiAZ, Err.SubnetWithMultiAZ}

\* C9: in both methods the name, from the flag or from the prompt, is
\* trimmed of spaces and tabs and then matched against the pattern: a name
\* that does not match fails with "Expected a valid name for the machine
\* pool", the flow goes on only with a matching name, and the ID of every
\* submitted request matches.
C9_NameRevalidated ==
    /\ err = Err.Name => Rejected /\ ~MatchString(loc.name)
    /\ ~MatchString(loc.name) =>
            \/ pc \in {"idle", "flags", "name"}
            \/ op = "none"
            \/ Rejected /\ err \in {Err.Name, Err.NamePrompt}
            \/ Rejected /\ err \in FlagErrors /\ loc.name = Empty
    /\ Submitted =>
            /\ request.id = loc.name
            /\ Trim(request.id) = request.id
            /\ MatchString(request.id)

\* A name answered at the prompt has been rejected by the method.
C9_PromptedNameRejected ==
    /\ asked = <<Ask.Name>>
    /\ err = Err.Name
    /\ loc.name # Empty

\* C11: in CreateMachinePool, whenever the spot-max-price flag is set and
\* spot instances are not enabled for the pool, creation is rejected: no
\* request without spot market options is submitted with that flag set.
C11_MaxPriceWithoutSpotNeverSubmitted ==
    op = ClassicOp /\ Submitted /\ Flag.SpotMaxPrice \in changed
        => request.spotMarketOptions # <<>>

\* The zones a pool is placed in: the zone of its subnet, else its
\* availability zone, else the zones of the cluster.
PoolZones(c, subnets, zones) ==
    IF subnets # <<>> THEN {SubnetAvailabilityZone(subnets[1])}
    ELSE IF zones # <<>> THEN {zones[1]}
    ELSE {AvailabilityZones(c)[i] : i \in 1..Len(AvailabilityZones(c))}

PoolVersion == IF loc.version = "" THEN cluster.version ELSE loc.version

\* C13: in every request submitted by CreateMachinePool or CreateNodePools
\* the additional security group IDs are non-empty only if the cluster is
\* BYO-VPC and the version is at least the minimum that supports them.
C13_SecurityGroupsOnlyWhereSupported ==
    Submitted /\ request.additionalSecurityGroupIds # <<>>
        => /\ cluster.byoVpc
           /\ IF op = ClassicOp THEN IsVersionCompatibleComputeSgIds(cluster)
              ELSE IsVersionCompatibleSecurityGroupIds(PoolVersion)

\* The subnet questions come after the zone question, if any.
SubnetAskedAfterZone ==
    \E i \in 1..Len(asked) :
        /\ asked[i] = Ask.SelectSubnet
        /\ \A j \in (i + 1)..Len(asked) : asked[j] # Ask.AZ

C16_ZoneOutsideClusterRejected ==
    loc.availabilityZone # ""
    /\ ~Contains(AvailabilityZones(cluster), loc.availabilityZone)
        => Rejected /\ err = Err.AZNotInCluster

\* C16: in CreateMachinePool a zone outside the cluster's zones is
\* rejected with that message, and every submitted request that carries an
\* availability zone carries one of the cluster's zones.  In CreateNodePools
\* the zone is looked up among the zones of the VPC's private subnets
\* instead, and a zone without one is rejected with "Failed to find a
\* private subnet".  In both, with no zone flag and no zone question the
\* zone is the first of the cluster's zones.
C16_ZoneCheckedPerMethod ==
    /\ op = ClassicOp /\ loc.availabilityZone # ""
       /\ ~Contains(AvailabilityZones(cluster), loc.availabilityZone)
            => Rejected /\ err = Err.AZNotInCluster
    /\ Submitted /\ request.availabilityZones # <<>>
            => Contains(AvailabilityZones(cluster), request.availabilityZones[1])
    /\ op = HostedOp /\ loc.availabilityZone # ""
       /\ loc.availabilityZone \notin DOMAIN cluster.vpc
            => Rejected /\ err \in {Err.NoPrivateSubnet, Err.AZPrompt}
    /\ loc.availabilityZone # "" /\ Flag.AZ \notin changed
       /\ ~Contains(asked, Ask.AZ)
       /\ (pc = "scaling" \/ err \in {Err.AZNotInCluster, Err.NoPrivateSubnet})
            => loc.availabilityZone = AvailabilityZones(cluster)[1]

\* CreateMachinePool has rejected a zone given by flag that is not one of
\* the cluster's.
C16_ForeignZoneRejected ==
    /\ op = ClassicOp
    /\ Flag.AZ \in changed
    /\ loc.availabilityZone = "us-east-1-bos-1a"
    /\ err = Err.AZNotInCluster
    /\ Rejected

\* C17: on a multi-AZ cluster CreateMachinePool rejects the availability-zone
\* or subnet flag given together with multi-availability-zone=true.  With
\* multi-availability-zone not set, or set to false, either flag makes the
\* pool single-AZ (the option is forced to false) and the multi-AZ question
\* is not asked; this part is read in the state that follows the placement
\* section.
C17_SingleAZFlagsAgainstMultiAZ ==
    op = ClassicOp /\ cluster.multiAZ
    /\ (Flag.AZ \in changed \/ Flag.Subnet \in changed)
        => /\ Flag.MultiAZ \in changed /\ args.MultiAvailabilityZone
                => Rejected /\ err \in FlagErrors
           /\ pc = "scaling"
                => /\ ~Contains(asked, Ask.MultiAZ)
                   /\ ~loc.multiAZMachinePool
                   /\ ~args.MultiAvailabilityZone
                   /\ loc.availabilityZone # "" \/ loc.subnet # ""

\* An interactive session with only the availability-zone flag has placed
\* a single-AZ pool and asked nothing.
C17_ZoneFlagMadePoolSingleAZ ==
    /\ op = ClassicOp
    /\ cluster.multiAZ
    /\ pc = "scaling"
    /\ interactive
    /\ changed = {Flag.AZ}
    /\ loc.availabilityZone = "us-east-1b"
    /\ asked = <<>>

\* The calls a step added.
NewCalls == SubSeq(calls', Len(calls) + 1, Len(calls'))

FirstFlagErrors ==
    {Err.MultiAZFlag, Err.AZFlag, Err.SubnetFlag, Err.SGByoVpc, Err.SGVersion,
     Err.SubnetAndAZ, Err.AZWithMultiAZ, Err.SubnetWithMultiAZ}

\* The errors of the flag checks made in the scaling and spot sections.
LaterFlagErrors ==
    {Err.ReplicasWithAutoscaling, Err.MinMaxWithoutAutoscaling,
     Err.MaxPriceWithoutSpot}

\* C19 as stated: when a flag-compatibility error is returned, no call to
\* the control plane or to the cloud has been made in the invocation.
C19_FlagErrorsBeforeAnyCall ==
    err \in FirstFlagErrors \cup LaterFlagErrors => calls = <<>>

\* C19: the flag checks at the head of either method fail before
\* any call; the scaling and spot flag checks fail before the create call
\* and before the calls of their own and of later sections, but after the
\* lookups the earlier sections made.
C19_FlagErrorsBeforeCreate ==
    /\ err \in FirstFlagErrors => Rejected /\ calls = <<>>
    /\ err \in LaterFlagErrors
        => /\ Rejected
           /\ ~CreateCalled
           /\ ~Contains(calls, Call.IsLocalAvailabilityZone)
           /\ ~Contains(calls, Call.GetDefaultClusterFlavors)
    /\ err \in {Err.ReplicasWithAutoscaling, Err.MinMaxWithoutAutoscaling}
        => \A i \in 1..Len(calls) :
               calls[i] \in {Call.GetVersionList, Call.ValidateVersion,
                             Call.GetVPCPrivateSubnets}

\* The spot flag check failed on a pool with a subnet, after the lookup of
\* the machine types of the region.
C19_SpotFlagErrorAfterLookup ==
    /\ err = Err.MaxPriceWithoutSpot
    /\ Rejected
    /\ loc.subnet # ""
    /\ Contains(calls, Call.GetAvailableMachineTypesInRegion)

\* C20: no error is swallowed: once a collaborator call of the invocation
\* has returned an error, here the lookup of the default flavour and root
\* disk size, the operation returns an error and submits nothing.
C20_FailedLookupRejected ==
    loc.flavorsErr => Rejected

\* The number of create calls among the calls of the invocation.
CreateCalls ==
    Cardinality({i \in 1..Len(calls) :
                    calls[i] \in {Call.CreateMachinePool, Call.CreateNodePool}})

\* C21: in one invocation the create API is called at most once, as the
\* last call, with the request built, and only after every validation and
\* every read-only query has succeeded: whenever an error other than the
\* create call's own is returned, the create API has not been called.
C21_CreateIsLastStep ==
    /\ CreateCalls <= 1
    /\ CreateCalled <=> Submitted
    /\ CreateCalled
        => /\ pc = "done"
           /\ calls[Len(calls)] \in {Call.CreateMachinePool, Call.CreateNodePool}
           /\ ~loc.flavorsErr
    /\ err \notin {NoErr, Nil, Err.CreateMachinePool, Err.CreateNodePool}
        => ~CreateCalled

\* A step of the flow returns an error other than the create call's.
ReturnsValidationError ==
    /\ pc # "done"
    /\ pc' = "done"
    /\ err' \notin {NoErr, Nil, Err.CreateMachinePool, Err.CreateNodePool}

\* C22 as stated: when a validation error is returned, the interactive-mode
\* setting and the options passed in are as they were before the call (of
\* the options, the multi-AZ one is compared, from the flag checks on: they
\* are the step that reads it).
C22_ErrorLeavesCallerStateUnchanged ==
    [][ReturnsValidationError
            => /\ interactive' = interactive
               /\ pc # "flags"
                    => args'.MultiAvailabilityZone = args.MultiAvailabilityZone]_vars

\* C22: validation is fail-fast: the section that finds a violated rule
\* returns its error, nothing has been submitted and the create API has not
\* been called.  What the caller can see may have changed, in these ways
\* only: interactive mode may have been turned on (by the name section or
\* the subnet section), never off, and CreateMachinePool may have written
\* false to the multi-AZ option of a multi-AZ cluster given a zone or subnet
\* flag.
C22_ErrorSideEffectsBounded ==
    [][ReturnsValidationError
            => /\ request' = NoRequest
               /\ ~CreateCalled'
               /\ interactive => interactive'
               /\ interactive' # interactive => pc \in {"name", "placement"}
               /\ pc # "flags"
                  /\ args'.MultiAvailabilityZone # args.MultiAvailabilityZone
                    => /\ ~args'.MultiAvailabilityZone
                       /\ op = ClassicOp
                       /\ pc = "placement"
                       /\ cluster.multiAZ
                       /\ Flag.AZ \in changed \/ Flag.Subnet \in changed]_vars

\* CreateMachinePool has rejected a zone flag after writing false to the
\* multi-AZ option, which no flag had set.
C22_OptionChangedBeforeError ==
    /\ op = ClassicOp
    /\ Rejected
    /\ err = Err.AZNotInCluster
    /\ Flag.AZ \in changed
    /\ Flag.MultiAZ \notin changed
    /\ ~args.MultiAvailabilityZone

C24_PromotedAndNeverDemoted ==
    [][/\ interactive => interactive'
       /\ pc = "name" /\ ~interactive /\ Contains(asked', Ask.Name) => interactive'
       /\ pc = "name" /\ ~interactive'
            => /\ asked' = <<>>
               /\ loc'.name # Empty
       /\ pc = "version" /\ interactive /\ err' # Err.Collaborator
            => asked' = <<Ask.Version>>
       /\ pc = "disk" /\ interactive => asked' = <<Ask.RootDiskSize>>]_vars

\* The name was asked for and given, and the session is interactive at the
\* next section.
C24_NameAskedSessionInteractive ==
    /\ pc = "placement"
    /\ op = ClassicOp
    /\ asked = <<Ask.Name>>
    /\ loc.name = <<"a">>
    /\ interactive

\* C25 as stated: the autoscaling question is asked only in an interactive
\* session in which none of the replicas, enable-autoscaling, min-replicas
\* and max-replicas flags was set.
C25_AskedOnlyWithoutReplicaFlags ==
    Contains(asked, Ask.Autoscaling)
        => /\ interactive
           /\ changed \cap {Flag.Replicas, Flag.Autoscaling, Flag.MinReplicas,
                            Flag.MaxReplicas} = {}

\* C25: the autoscaling question is asked only in an interactive session in
\* which neither the replicas nor the enable-autoscaling flag was set, and
\* in every such session that reaches the scaling section; the min-replicas
\* and max-replicas flags do not suppress it.
C25_AskedUnlessReplicasOrAutoscalingFlag ==
    /\ Contains(asked, Ask.Autoscaling)
        => /\ interactive
           /\ Flag.Replicas \notin changed
           /\ Flag.Autoscaling \notin changed
    /\ pc = "securitygroups" /\ interactive
       /\ Flag.Replicas \notin changed /\ Flag.Autoscaling \notin changed
        => Contains(asked, Ask.Autoscaling)

\* With the min-replicas flag set, the question was asked and answered yes.
C25_AskedWithMinReplicasFlag ==
    /\ pc = "securitygroups"
    /\ Flag.MinReplicas \in changed
    /\ Contains(asked, Ask.Autoscaling)
    /\ loc.autoscaling

\* C26: every tuning-config name of a node pool request CreateNodePools
\* submits is one of the names the cluster reports as available; when the
\* cluster reports none the request carries no tuning configs.
C26_TuningConfigsAvailable ==
    op = HostedOp /\ Submitted
        => \A i \in 1..Len(request.tuningConfigs) :
               Contains(loc.availableTuningConfigs, request.tuningConfigs[i])

\* C27: after the scaling section has succeeded, a replica value was asked
\* for exactly when the session is interactive or its flag was not set, in
\* a non-interactive session too: min-replicas and max-replicas with
\* autoscaling, replicas without it.  The value the section keeps, from the
\* flag or from the prompt, passed the validator of its method.
C27_ReplicasPromptedUnlessFlagged ==
    pc = "securitygroups" =>
        IF loc.autoscaling
        THEN /\ Contains(asked, Ask.MinReplicas)
                    <=> (interactive \/ Flag.MinReplicas \notin changed)
             /\ Contains(asked, Ask.MaxReplicas)
                    <=> (interactive \/ Flag.MaxReplicas \notin changed)
             /\ ~Contains(asked, Ask.Replicas)
             /\ MinValidator(op, loc, TRUE, loc.minReplicas) = Nil
             /\ MaxValidator(op, loc, loc.minReplicas, loc.maxReplicas) = Nil
        ELSE /\ Contains(asked, Ask.Replicas)
                    <=> (interactive \/ Flag.Replicas \notin changed)
             /\ ~Contains(asked, Ask.MinReplicas)
             /\ ~Contains(asked, Ask.MaxReplicas)
             /\ MinValidator(op, loc, FALSE, loc.replicas) = Nil

\* A non-interactive session was asked for the replicas it had no flag for.
C27_AskedInNonInteractiveSession ==
    /\ pc = "securitygroups"
    /\ ~interactive
    /\ ~loc.autoscaling
    /\ Flag.Replicas \notin changed
    /\ Contains(asked, Ask.Replicas)
    /\ loc.replicas > 0

\* C29: the runner refuses a cluster that is not Ready with "Cluster is not
\* yet ready" before anything else: no labels were read, no cloud client
\* was built, neither method was entered, no question asked, no call made,
\* nothing submitted.  A runner error leaves both methods unentered; a
\* method is entered only for a Ready cluster, after the labels parsed and
\* the cloud client was built, and it is CreateNodePools exactly for a
\* hosted cluster, so that only that method's create API is ever called.
\* In a non-interactive CreateMachinePool given a valid name, a valid fixed
\* replica count and a valid instance type by flags and nothing else, no
\* step fails except on an error of a collaborator or of the comparison of
\* an unparsable cluster version.
C29_RunnerRefusesOrDispatches ==
    /\ [](cluster.state # ClusterStateReady =>
            /\ pc = "done"
            /\ err = Err.NotReady
            /\ op = "none"
            /\ loc = InitLoc
            /\ asked = <<>>
            /\ calls = <<>>
            /\ ~Submitted)
    /\ [](/\ err \in {Err.NotReady, Err.Labels, Err.AWSClient}
                => pc = "done" /\ op = "none" /\ calls = <<>>
          /\ pc \notin {"idle", "done"} => op # "none"
          /\ op # "none" =>
                /\ cluster.state = ClusterStateReady
                /\ ParseLabels(loc.labels) = NoErr
                /\ loc.awsClient
                /\ op = IF cluster.hosted THEN HostedOp ELSE ClassicOp
          /\ Contains(calls, Call.CreateMachinePool) => op = ClassicOp
          /\ Contains(calls, Call.CreateNodePool) => op = HostedOp
          /\ Submitted => request.kind = IF cluster.hosted THEN "NodePool"
                                          ELSE "MachinePool")
    /\ [][(/\ op = ClassicOp
           /\ pc \notin {"idle", "done"}
           /\ pc' # pc
           /\ ~interactive'
           /\ asked' = <<>>
           /\ changed' \subseteq {Flag.Replicas}
           /\ pc = "name" => MatchString(loc'.name)
           /\ pc = "scaling" =>
                  /\ Flag.Replicas \in changed'
                  /\ minReplicaValidator(loc'.multiAZMachinePool,
                                         loc'.replicas) = Nil
           /\ pc = "securitygroups" => loc'.securityGroupIds = <<>>
           /\ pc = "instancetype" =>
                  loc'.instanceType \in AvailableMachineTypes)
          => err' \in {NoErr, Nil, Err.Collaborator, Err.CreateMachinePool,
                       Err.VersionCheck}]_vars

\* A Ready classic cluster, a non-interactive session, name, replicas and
\* instance type by flags: the pool was created without error.
C29_CreatedByFlags ==
    /\ cluster.state = ClusterStateReady
    /\ op = ClassicOp
    /\ ~interactive
    /\ pc = "done"
    /\ err = Nil
    /\ Submitted
    /\ request.id = <<"a">>
    /\ request.replicas = <<3>>
    /\ calls = <<Call.GetAvailableMachineTypesInRegion,
                 Call.GetDefaultClusterFlavors, Call.CreateMachinePool>>

----------------------------------------------------------------------------
(* Specification of the pattern as a pure function: a name is drawn, then  *)
(* MatchString is applied to it.                                           *)

InitName ==
    /\ Idle
    /\ interactive = FALSE
    /\ fin \in NameTexts
    /\ fout = "none"

ApplyMatchString ==
    /\ fout = "none"
    /\ fout' = IF MatchString(fin) THEN "match" ELSE "no match"
    /\ UNCHANGED fin
    /\ UNCHANGED flowVars

NextName == ApplyMatchString

SpecName == InitName /\ [][NextName]_vars

\* C8: MatchString accepts exactly the non-empty names that start with a
\* lower-case letter, hold only lower-case letters, digits and hyphens, and
\* do not end with a hyphen, whatever their length: "machinepool1" and "m"
\* followed by 29 digits match; "1machinepool", "#1machinepool" and every
\* name holding '#', '%' or '$' do not.
C8_PatternAcceptsExactlyWellFormedNames ==
    fout # "none" =>
        /\ (fout = "match") <=>
                /\ fin # <<>>
                /\ fin[1] \in LowerChars
                /\ \A i \in 1..Len(fin) :
                        fin[i] \in LowerChars \cup DigitChars \cup {"-"}
                /\ fin[Len(fin)] # "-"
        /\ fin \in {NameMachinepool1, NameM29Digits} => fout = "match"
        /\ fin \in {Name1Machinepool, NameHash1Machinepool} => fout = "no match"
        /\ (\E i \in 1..Len(fin) : fin[i] \in {"#", "%", "$"}) => fout = "no match"

\* The 30-character name of the package's test has been matched.
C8_LongNameMatched == fin = NameM29Digits /\ fout = "match"

----------------------------------------------------------------------------
(* Specification of the spot price validator as a pure function: a text is *)
(* drawn, then spotMaxPriceValidator is applied to it.                     *)

InitPrice ==
    /\ Idle
    /\ interactive = FALSE
    /\ fin \in PriceTexts
    /\ fout = "none"

ApplySpotMaxPriceValidator ==
    /\ fout = "none"
    /\ fout' = spotMaxPriceValidator(fin)
    /\ UNCHANGED fin
    /\ UNCHANGED flowVars

NextPrice == ApplySpotMaxPriceValidator

SpecPrice == InitPrice /\ [][NextPrice]_vars

\* C10: spotMaxPriceValidator succeeds exactly when its input is
\* "on-demand" or parses as a number strictly greater than 0 (positive
\* infinity counted as such a number).
C10_ValidatorSucceedsExactlyOnPositive ==
    fout # "none" =>
        ((fout = Nil) <=>
            \/ fin = OnDemand
            \/ /\ ParseFloat(fin).kind = "num"
               /\ ~ParseFloat(fin).neg
               /\ ParseFloat(fin).mant > 0
            \/ ParseFloat(fin).kind = "inf" /\ ~ParseFloat(fin).neg)

----------------------------------------------------------------------------
(* Specification of getMachinePoolAvailabilityZones as a pure function:    *)
(* a cluster and the user's input are drawn, then the function is applied. *)
(* fin is the argument list, fout is <<>> and then <<the result>>.         *)

InitZones ==
    /\ Idle
    /\ interactive = FALSE
    /\ fin \in [cluster : {c \in Clusters : ~c.hosted},
                multiAZMachinePool : BOOLEAN,
                availabilityZoneUserInput : ZoneInputs,
                subnetUserInput : SubnetInputs]
    /\ fout = <<>>

ApplyGetMachinePoolAvailabilityZones ==
    /\ fout = <<>>
    /\ \E r \in getMachinePoolAvailabilityZones(
                    fin.cluster, fin.multiAZMachinePool,
                    fin.availabilityZoneUserInput, fin.subnetUserInput) :
        fout' = <<r>>
    /\ UNCHANGED fin
    /\ UNCHANGED flowVars

NextZones == ApplyGetMachinePoolAvailabilityZones

SpecZones == InitZones /\ [][NextZones]_vars

\* C14: getMachinePoolAvailabilityZones returns exactly [zone] when the
\* cluster is multi-AZ, the pool is single-AZ and a zone was given, whether
\* or not a subnet was given too; otherwise, when a subnet was given,
\* exactly [the zone of that subnet], or the lookup error with an empty
\* list; otherwise the cluster's availability zones in cluster order.
C14_ZonesFromInputOrCluster ==
    fout # <<>> =>
        IF fin.cluster.multiAZ /\ ~fin.multiAZMachinePool
           /\ fin.availabilityZoneUserInput # ""
        THEN /\ fout[1].zones = <<fin.availabilityZoneUserInput>>
             /\ fout[1].err = NoErr
             /\ fout[1].calls = <<>>
        ELSE IF fin.subnetUserInput # ""
        THEN /\ fout[1].calls = <<Call.GetSubnetAvailabilityZone>>
             /\ \/ /\ fout[1].err = NoErr
                   /\ fout[1].zones = <<SubnetAvailabilityZone(fin.subnetUserInput)>>
                \/ /\ fout[1].err # NoErr
                   /\ fout[1].zones = <<>>
        ELSE /\ fout[1].zones = AvailabilityZones(fin.cluster)
             /\ fout[1].err = NoErr
             /\ fout[1].calls = <<>>

\* A zone and a subnet were both given for a single-AZ pool of a multi-AZ
\* cluster, and the zone was returned.
C14_ZoneBeforeSubnet ==
    /\ fout # <<>>
    /\ fin.cluster.multiAZ
    /\ ~fin.multiAZMachinePool
    /\ fin.availabilityZoneUserInput = "us-east-1b"
    /\ fin.subnetUserInput = "subnet-lz"
    /\ fout[1].zones = <<"us-east-1b">>

----------------------------------------------------------------------------
(* Specification of DeleteMachinePool (lines 1250-1311) as a function of   *)
(* its arguments and of what its collaborators answer: fin holds the pool  *)
(* id, the cluster with the ids of its pools, whether the lookup and the   *)
(* delete call fail and what the user answers; fout is <<>> and then       *)
(* <<the result>>: the error returned, the calls made, the questions asked *)
(* and the ids passed to the delete API.                                   *)

PoolIds == {"a", "b"}
\* The pools of the cluster, in the order GetMachinePools lists them.
PoolLists == {<<>>} \cup {<<p>> : p \in PoolIds}
                 \cup {<<p, q>> : p \in PoolIds, q \in PoolIds}

DeleteResult(e, cs, as, ds) ==
    [err |-> e, calls |-> cs, asked |-> as, deleted |-> ds]

\* confirm.Confirm: whether the user (or the --yes flag) agrees.
Confirm(answer) == answer

\* Lines 1265-1273: the last listed pool with the id, <<>> when none has it.
FindMachinePool(machinePools, machinePoolId) ==
    LET found == {i \in 1..Len(machinePools) : machinePools[i] = machinePoolId}
    IN  IF found = {} THEN <<>>
        ELSE <<machinePools[CHOOSE i \in found : \A j \in found : j <= i]>>

\* Lines 1289-1310.  e is what the collaborators answer.
deleteNodePool(nodePoolID, c, e) ==
    LET get == <<Call.GetNodePool>>
        exists == \E i \in 1..Len(c.pools) : c.pools[i] = nodePoolID
    IN  IF e.lookupFails THEN DeleteResult(Err.GetNodePool, get, <<>>, <<>>)
        ELSE IF ~exists
        THEN DeleteResult(Err.NodePoolNotFound, get, <<>>, <<>>)
        ELSE IF Confirm(e.confirm)
        THEN DeleteResult(IF e.deleteFails THEN Err.DeleteNodePool ELSE NoErr,
                          get \o <<Call.DeleteNodePool>>,
                          <<Ask.ConfirmDelete>>, <<nodePoolID>>)
        ELSE DeleteResult(NoErr, get, <<Ask.ConfirmDelete>>, <<>>)

\* The method deleting the pool it found without asking.
DeleteMachinePoolUnconfirmed(machinePoolId, c, e) ==
    LET get == <<Call.GetMachinePools>>
        machinePool == FindMachinePool(c.pools, machinePoolId)
    IN  IF c.hosted THEN deleteNodePool(machinePoolId, c, e)
        ELSE IF e.lookupFails
        THEN DeleteResult(Err.GetMachinePools, get, <<>>, <<>>)
        ELSE IF machinePool = <<>>
        THEN DeleteResult(Err.MachinePoolNotFound, get, <<>>, <<>>)
        ELSE DeleteResult(IF e.deleteFails THEN Err.DeleteMachinePool ELSE NoErr,
                          get \o <<Call.DeleteMachinePool>>,
                          <<>>, machinePool)

\* Lines 1252-1285.
DeleteMachinePool(machinePoolId, c, e) ==
    LET get == <<Call.GetMachinePools>>
        machinePool == FindMachinePool(c.pools, machinePoolId)
    IN  IF c.hosted THEN deleteNodePool(machinePoolId, c, e)
        ELSE IF e.lookupFails
        THEN DeleteResult(Err.GetMachinePools, get, <<>>, <<>>)
        ELSE IF machinePool = <<>>
        THEN DeleteResult(Err.MachinePoolNotFound, get, <<>>, <<>>)
        ELSE IF Confirm(e.confirm)
        THEN DeleteResult(IF e.deleteFails THEN Err.DeleteMachinePool ELSE NoErr,
                          get \o <<Call.DeleteMachinePool>>,
                          <<Ask.ConfirmDelete>>, machinePool)
        ELSE DeleteResult(NoErr, get, <<Ask.ConfirmDelete>>, <<>>)

InitDelete ==
    /\ Idle
    /\ interactive = FALSE
    /\ fin \in [machinePoolId : PoolIds,
                cluster : [hosted : BOOLEAN, pools : PoolLists],
                answers : [lookupFails : BOOLEAN, confirm : BOOLEAN,
                           deleteFails : BOOLEAN]]
    /\ fout = <<>>

ApplyDeleteMachinePool ==
    /\ fout = <<>>
    /\ fout' = <<DeleteMachinePool(fin.machinePoolId, fin.cluster, fin.answers)>>
    /\ UNCHANGED fin
    /\ UNCHANGED flowVars

NextDelete == ApplyDeleteMachinePool

SpecDelete == InitDelete /\ [][NextDelete]_vars

\* The calls of a result that are calls of a delete API.
DeleteCalls(r) ==
    {i \in 1..Len(r.calls) :
        r.calls[i] \in {Call.DeleteMachinePool, Call.DeleteNodePool}}

\* C28: DeleteMachinePool calls the delete API at most once, as its last
\* call, for the pool id it was given and with the API of the cluster's
\* topology, and only when the lookup succeeded, the pool is on the cluster
\* and the user confirmed; a failed lookup and a pool that is not found
\* return an error without a delete call, and a declined confirmation
\* returns no error without a delete call.
C28_DeleteOnlyFoundAndConfirmed ==
    fout # <<>> =>
        LET r == fout[1]
            onCluster == \E i \in 1..Len(fin.cluster.pools) :
                             fin.cluster.pools[i] = fin.machinePoolId
            api == IF fin.cluster.hosted THEN Call.DeleteNodePool
                   ELSE Call.DeleteMachinePool
        IN  /\ Cardinality(DeleteCalls(r)) <= 1
            /\ (DeleteCalls(r) # {}) <=>
                   (~fin.answers.lookupFails /\ onCluster /\ fin.answers.confirm)
            /\ DeleteCalls(r) # {} =>
                   /\ r.calls[Len(r.calls)] = api
                   /\ r.deleted = <<fin.machinePoolId>>
                   /\ r.asked = <<Ask.ConfirmDelete>>
                   /\ (r.err = NoErr) <=> ~fin.answers.deleteFails
            /\ DeleteCalls(r) = {} => r.deleted = <<>>
            /\ fin.answers.lookupFails =>
                   r.err \in {Err.GetMachinePools, Err.GetNodePool}
            /\ ~fin.answers.lookupFails /\ ~onCluster =>
                   r.err \in {Err.MachinePoolNotFound, Err.NodePoolNotFound}
            /\ ~fin.answers.lookupFails /\ onCluster /\ ~fin.answers.confirm =>
                   r.err = NoErr /\ r.asked = <<Ask.ConfirmDelete>>

\* The user declined to delete a pool the cluster has: success, no delete.
C28_DeclinedDeletesNothing ==
    /\ fout # <<>>
    /\ ~fin.answers.lookupFails
    /\ ~fin.answers.confirm
    /\ fin.cluster.pools = <<"b", "a">>
    /\ fin.machinePoolId = "a"
    /\ fout[1].err = NoErr
    /\ fout[1].calls = <<Call.GetMachinePools>>

----------------------------------------------------------------------------
(* Specification of KubletConfigOptions.Create (cmd/create/kubeletconfig/  *)
(* cmd.go lines 77-125) as a function of its arguments and of what its     *)
(* collaborators answer: fin holds the requested pod-pids-limit, the       *)
(* fetched cluster, and whether the lookup fails, a custom KubeletConfig   *)
(* exists, the limit is accepted, the user confirms and the create call    *)
(* fails; fout is <<>> and then <<the result>>: the error returned, the    *)
(* calls made, the questions asked and the limits passed to the create API.*)

\* args.podPidsLimit: -1 stands for the value of an option no flag set,
\* 4096 for a value given by flag.
PodPidsLimits == {-1, 4096}

KubeletResult(e, cs, as, ps) ==
    [err |-> e, calls |-> cs, asked |-> as, created |-> ps]

\* ValidateOrPromptForRequestedPidsLimit: the accepted limit, <<>> with an
\* error.
ValidateOrPromptForRequestedPidsLimit(requested, accepted) ==
    IF accepted THEN <<requested>> ELSE <<>>

\* confirm.ConfirmRaw: whether the user (or the --yes flag) agrees.
ConfirmRaw(answer) == answer

\* The method looking at the cluster state before the topology.
KubletConfigOptionsCreateStateFirst(podPidsLimit, c, e) ==
    LET get == <<Call.GetClusterKubeletConfig>>
        requestedPids == ValidateOrPromptForRequestedPidsLimit(podPidsLimit,
                                                               e.accepted)
    IN  IF c.state # ClusterStateReady
        THEN KubeletResult(Err.KubeletNotReady, <<>>, <<>>, <<>>)
        ELSE IF c.hosted THEN KubeletResult(Err.KubeletHCP, <<>>, <<>>, <<>>)
        ELSE IF e.lookupFails
        THEN KubeletResult(Err.GetClusterKubeletConfig, get, <<>>, <<>>)
        ELSE IF e.exists
        THEN KubeletResult(Err.KubeletConfigExists, get, <<>>, <<>>)
        ELSE IF requestedPids = <<>>
        THEN KubeletResult(Err.PodPidsLimit, get, <<>>, <<>>)
        ELSE IF ConfirmRaw(e.confirm)
        THEN KubeletResult(IF e.createFails THEN Err.CreateKubeletConfig
                           ELSE NoErr,
                           get \o <<Call.CreateKubeletConfig>>,
                           <<Ask.ConfirmReboot>>, requestedPids)
        ELSE KubeletResult(NoErr, get, <<Ask.ConfirmReboot>>, <<>>)

\* Lines 77-125.  e is what the collaborators answer.
KubletConfigOptionsCreate(podPidsLimit, c, e) ==
    LET get == <<Call.GetClusterKubeletConfig>>
        requestedPids == ValidateOrPromptForRequestedPidsLimit(podPidsLimit,
                                                               e.accepted)
    IN  IF c.hosted THEN KubeletResult(Err.KubeletHCP, <<>>, <<>>, <<>>)
        ELSE IF c.state # ClusterStateReady
        THEN KubeletResult(Err.KubeletNotReady, <<>>, <<>>, <<>>)
        ELSE IF e.lookupFails
        THEN KubeletResult(Err.GetClusterKubeletConfig, get, <<>>, <<>>)
        ELSE IF e.exists
        THEN KubeletResult(Err.KubeletConfigExists, get, <<>>, <<>>)
        ELSE IF requestedPids = <<>>
        THEN KubeletResult(Err.PodPidsLimit, get, <<>>, <<>>)
        ELSE IF ConfirmRaw(e.confirm)
        THEN KubeletResult(IF e.createFails THEN Err.CreateKubeletConfig
                           ELSE NoErr,
                           get \o <<Call.CreateKubeletConfig>>,
                           <<Ask.ConfirmReboot>>, requestedPids)
        ELSE KubeletResult(NoErr, get, <<Ask.ConfirmReboot>>, <<>>)

InitKubelet ==
    /\ Idle
    /\ interactive = FALSE
    /\ fin \in [podPidsLimit : PodPidsLimits,
                cluster : [hosted : BOOLEAN, state : ClusterStates],
                answers : [lookupFails : BOOLEAN, exists : BOOLEAN,
                           accepted : BOOLEAN, confirm : BOOLEAN,
                           createFails : BOOLEAN]]
    /\ fout = <<>>

ApplyKubletConfigOptionsCreate ==
    /\ fout = <<>>
    /\ fout' = <<KubletConfigOptionsCreate(fin.podPidsLimit, fin.cluster,
                                           fin.answers)>>
    /\ UNCHANGED fin
    /\ UNCHANGED flowVars

NextKubelet == ApplyKubletConfigOptionsCreate

SpecKubelet == InitKubelet /\ [][NextKubelet]_vars

\* C30: KubletConfigOptions.Create returns the error of the first guard that
\* fails, in the order hosted control plane, cluster state, lookup, existing
\* custom KubeletConfig, pod-pids-limit, and then makes no create call; it
\* calls CreateKubeletConfig exactly when every guard passed and the user
\* confirmed the reboot warning, once, as its last call, with the validated
\* limit; a declined confirmation returns no error and makes no create call.
C30_CreateOnlyAfterGuards ==
    fout # <<>> =>
        LET r == fout[1]
            c == fin.cluster
            e == fin.answers
            guard == IF c.hosted THEN Err.KubeletHCP
                     ELSE IF c.state # ClusterStateReady THEN Err.KubeletNotReady
                     ELSE IF e.lookupFails THEN Err.GetClusterKubeletConfig
                     ELSE IF e.exists THEN Err.KubeletConfigExists
                     ELSE IF ~e.accepted THEN Err.PodPidsLimit
                     ELSE NoErr
            creates == {i \in 1..Len(r.calls) :
                            r.calls[i] = Call.CreateKubeletConfig}
        IN  /\ guard # NoErr =>
                   r.err = guard /\ creates = {} /\ r.asked = <<>>
            /\ guard # NoErr /\ guard \in {Err.KubeletHCP, Err.KubeletNotReady}
                   => r.calls = <<>>
            /\ guard = NoErr => r.asked = <<Ask.ConfirmReboot>>
            /\ (creates # {}) <=> (guard = NoErr /\ e.confirm)
            /\ creates # {} =>
                   /\ creates = {Len(r.calls)}
                   /\ r.created = <<fin.podPidsLimit>>
                   /\ (r.err = NoErr) <=> ~e.createFails
            /\ creates = {} => r.created = <<>>
            /\ guard = NoErr /\ ~e.confirm => r.err = NoErr

\* A hosted cluster that is not Ready either was refused as hosted.
C30_HostedRefusedBeforeState ==
    /\ fout # <<>>
    /\ fin.cluster.hosted
    /\ fin.cluster.state # ClusterStateReady
    /\ fin.answers.confirm
    /\ fout[1].err = Err.KubeletHCP
    /\ fout[1].calls = <<>>

=========================================================================
